---- MODULE Spec2Model ----
(***************************************************************************)
(* DayGrid (src/src/App.tsx): the 96-slot day grid, its pointer-gesture    *)
(* recognizer and the segment compressor, as state machines.               *)
(*                                                                         *)
(*   Spec     the interaction state machine of the record page: presses,   *)
(*            motion samples, releases, cancellations, the selection sheet *)
(*            buttons and the event picker.                                *)
(*   SpecSeg  the segment compressor (globalSegments) applied to a bounded *)
(*            family of 96-entry slot arrays.                              *)
(*   SpecAgg, SpecTop, SpecTime, SpecDate                                  *)
(*            the pure functions aggregateDays, topNFromMap, slotToTime    *)
(*            and the date arithmetic, each applied to bounded inputs.     *)
(*                                                                         *)
(* Representation: a nullable reference (gestureRef.current, day) is a     *)
(* sequence of length 0 (null) or 1 (the object); a null slot entry is the *)
(* string EMPTY; a null anchorRef.current is NoSlot.  Event ids are        *)
(* non-empty strings, so that !eid is eid = EMPTY.  A useMemo cell is the  *)
(* record of its dependency and of the value computed from it.             *)
(***************************************************************************)
EXTENDS Integers, Sequences, FiniteSets, TLC

\* ------------------------------------------------------------------------
\* Program constants
\* ------------------------------------------------------------------------
SLOT_MINUTES == 15
TOTAL_SLOTS == 96
START_HOUR == 8
RECENT_LIMIT == 8
DRAG_START_PX == 6
\* AXIS_LOCK_RATIO = 1.2 is kept as the fraction AXIS_LOCK_NUM / AXIS_LOCK_DEN
AXIS_LOCK_NUM == 6
AXIS_LOCK_DEN == 5
SCROLL_CANCEL_PX == 8
GRID_ROWS == 12
GRID_COLS == 8

\* ------------------------------------------------------------------------
\* Bounds of the model
\* ------------------------------------------------------------------------
\* pointer identifiers are 1..MaxPointerId
MaxPointerId == 2
\* pointer coordinates, relative to the press point, are -MaxDelta..MaxDelta
MaxDelta == 12
\* presses and hit tests land on the first CellCount multiples of SlotStride
\* and on the last cell of the grid
SlotStride == 10
CellCount == 4
\* slot arrays of SpecSeg differ from a uniform array in a window of PatLen slots
PatLen == 3
\* aggregateDays is given lists of at most MaxDays entries
MaxDays == 3
\* topNFromMap is given maps of at most MaxEntries entries
MaxEntries == 3
\* an entry of such a map counts at most MaxQuarters quarter hours
MaxQuarters == 2
\* addDays is given deltas of at most MaxDayDelta days either way, and of
\* FarDays days (some nine centuries) either way
MaxDayDelta == 3
FarDays == 329000
\* the date buttons reach MaxNav days either way from the date of the run
MaxNav == 1
\* the user starts at most MaxOps operations
MaxOps == 1

\* ------------------------------------------------------------------------
\* Values
\* ------------------------------------------------------------------------
Null == <<>>
EMPTY == "null"
NoSlot == -1
NoCell == -1

\* gridRows: 12 rows x 8 columns of slot indices r * 8 + c
Slots == { r * GRID_COLS + c : r \in 0..(GRID_ROWS - 1), c \in 0..(GRID_COLS - 1) }

Pointers == 1..MaxPointerId
Coords == (0 - MaxDelta)..MaxDelta
\* the cells the model presses and lands on
Cells == { s \in Slots : (s % SlotStride = 0 /\ s < CellCount * SlotStride)
                           \/ s = GRID_ROWS * GRID_COLS - 1 }
\* where a pointer can go down on the record page
Places == {"noclear", "blank"}
EventIds == {"evt_a", "evt_b"}
SlotValues == EventIds \cup {EMPTY}
\* the extreme and the central pointer coordinates
ProbeCoords == {0 - MaxDelta, 0, MaxDelta}

\* The slot arrays of SpecSeg: 96 entries, all equal to fill except a window
\* of PatLen entries at offset o, which holds any pattern of slot values.
SlotArrays ==
    { [i \in 1..TOTAL_SLOTS |->
          IF i - 1 >= o /\ i - 1 < o + PatLen THEN pat[i - o] ELSE fill] :
      fill \in SlotValues, o \in 0..(TOTAL_SLOTS - PatLen),
      pat \in [1..PatLen -> SlotValues] }

VARIABLES
    contacts,        \* environment: the pointers currently down
    selected,        \* useState<Set<number>>
    anchorRef,       \* useRef<number | null>
    gestureRef,      \* useRef<{active, pointerId, startX, startY, startSlot, mode} | null>
    showPicker,      \* useState(false)
    day,             \* useState<DayLog | null>
    globalSegments,  \* useMemo(..., [day]): the cached value and the day it was computed from
    call,            \* a call of a pure function: its name and arguments
    ret,             \* the values the call returned so far
    store,           \* localforage instance "daygrid": the items by key
    dateKey,         \* useState<string>(toDateKey())
    settings,        \* useState<Settings | null>(null)
    categories,      \* useState<Category[]>([])
    events,          \* useState<EventTag[]>([])
    recentEvents,    \* useState<string[]>([])
    booting,         \* useState(true)
    tasks,           \* the async functions waiting at an await, oldest first
    alerts,          \* the number of alert() dialogs shown
    ops              \* the number of operations the user may still start

\* the variables of the pure-function specifications
calcVars == <<call, ret>>

\* the variables of the store and of the app state around the Day Log
appVars == <<store, dateKey, settings, categories, events, recentEvents, booting,
             tasks, alerts, ops>>

vars == <<contacts, selected, anchorRef, gestureRef, showPicker, day, globalSegments,
          calcVars, appVars>>

\* the app variables in the specifications that do not involve them
NoApp ==
    /\ store = Null
    /\ dateKey = Null
    /\ settings = Null
    /\ categories = <<>>
    /\ events = <<>>
    /\ recentEvents = <<>>
    /\ booting = FALSE
    /\ tasks = <<>>
    /\ alerts = 0
    /\ ops = 0

\* ------------------------------------------------------------------------
\* Selection helpers
\* ------------------------------------------------------------------------
Min(a, b) == IF a < b THEN a ELSE b
Max(a, b) == IF a > b THEN a ELSE b
Abs(x) == IF x < 0 THEN 0 - x ELSE x
Least(S) == CHOOSE x \in S : \A y \in S : x <= y

\* selectRange with the loop bound i < max
selectRange_HalfOpen(a, b) == { i \in Min(a, b)..(Max(a, b) - 1) : TRUE }

\* selectRange(a, b): the set built by the loop for (i = min; i <= max; i++)
selectRange(a, b) == { i \in Min(a, b)..Max(a, b) : TRUE }

\* ------------------------------------------------------------------------
\* Gesture recognizer
\* ------------------------------------------------------------------------
\* ady > SCROLL_CANCEL_PX && ady > adx * AXIS_LOCK_RATIO
ScrollTest(adx, ady) ==
    /\ ady > SCROLL_CANCEL_PX
    /\ ady * AXIS_LOCK_DEN > adx * AXIS_LOCK_NUM

\* the drag test with >= for both comparisons
DragTest_Inclusive(adx, ady) ==
    /\ adx >= DRAG_START_PX
    /\ adx * AXIS_LOCK_DEN >= ady * AXIS_LOCK_NUM

\* adx > DRAG_START_PX && adx > ady * AXIS_LOCK_RATIO
DragTest(adx, ady) ==
    /\ adx > DRAG_START_PX
    /\ adx * AXIS_LOCK_DEN > ady * AXIS_LOCK_NUM

\* The record onCellPointerDown stores in gestureRef.current
NewGesture(pointerId, clientX, clientY, startSlot) ==
    [active |-> TRUE, pointerId |-> pointerId, startX |-> clientX,
     startY |-> clientY, startSlot |-> startSlot, mode |-> "pending"]

\* the thresholds are compared again in every mode but hdrag
ModeAfterSample_Reclassifies(g, clientX, clientY) ==
    LET adx == Abs(clientX - g.startX)
        ady == Abs(clientY - g.startY)
    IN  IF g.mode # "hdrag"
        THEN IF ScrollTest(adx, ady) THEN "scroll"
             ELSE IF DragTest(adx, ady) THEN "hdrag"
             ELSE g.mode
        ELSE g.mode

\* The value of g.mode when onGridPointerMove returns: outside pending the
\* thresholds are not consulted and the mode stays as it is.
ModeAfterSample(g, clientX, clientY) ==
    LET dx == clientX - g.startX
        dy == clientY - g.startY
        adx == Abs(dx)
        ady == Abs(dy)
    IN  IF g.mode = "pending"
        THEN IF ScrollTest(adx, ady) THEN "scroll"
             ELSE IF DragTest(adx, ady) THEN "hdrag"
             ELSE "pending"
        ELSE g.mode

\* onGridPointerMove without the else { return; } of the pending branch
GridPointerMove_HitTestWhilePending(gref, sel, pointerId, clientX, clientY, cell) ==
    IF gref = Null THEN [gestureRef |-> gref, selected |-> sel]
    ELSE LET g == gref[1] IN
         IF ~g.active \/ pointerId # g.pointerId
         THEN [gestureRef |-> gref, selected |-> sel]
         ELSE LET m == ModeAfterSample(g, clientX, clientY)
                  g2 == [g EXCEPT !.mode = m]
              IN  IF m = "scroll" \/ cell = NoCell
                  THEN [gestureRef |-> <<g2>>, selected |-> sel]
                  ELSE [gestureRef |-> <<g2>>,
                        selected |-> selectRange(g.startSlot, cell)]

\* onGridPointerMove without the comparison of e.pointerId with g.pointerId
GridPointerMove_AnyPointer(gref, sel, pointerId, clientX, clientY, cell) ==
    IF gref = Null THEN [gestureRef |-> gref, selected |-> sel]
    ELSE LET g == gref[1] IN
         IF ~g.active
         THEN [gestureRef |-> gref, selected |-> sel]
         ELSE LET m == ModeAfterSample(g, clientX, clientY)
                  g2 == [g EXCEPT !.mode = m]
              IN  IF m # "hdrag" \/ cell = NoCell
                  THEN [gestureRef |-> <<g2>>, selected |-> sel]
                  ELSE [gestureRef |-> <<g2>>,
                        selected |-> selectRange(g.startSlot, cell)]

\* onGridPointerMove as a function of the state it reads and of the event:
\* the values of gestureRef.current and selected when it returns.
\* cell is the data-slot of the cell under the pointer, NoCell when
\* elementFromPoint(...).closest("[data-slot]") finds none.
GridPointerMove(gref, sel, pointerId, clientX, clientY, cell) ==
    IF gref = Null THEN [gestureRef |-> gref, selected |-> sel]
    ELSE LET g == gref[1] IN
         IF ~g.active \/ pointerId # g.pointerId
         THEN [gestureRef |-> gref, selected |-> sel]
         ELSE LET m == ModeAfterSample(g, clientX, clientY)
                  g2 == [g EXCEPT !.mode = m]
              IN  IF m # "hdrag" \/ cell = NoCell
                  THEN [gestureRef |-> <<g2>>, selected |-> sel]
                  ELSE [gestureRef |-> <<g2>>,
                        selected |-> selectRange(g.startSlot, cell)]

\* ------------------------------------------------------------------------
\* Handlers of the record page
\* ------------------------------------------------------------------------
\* clearSelection()
clearSelection ==
    /\ selected' = {}
    /\ showPicker' = FALSE

\* onCellPointerDown adding the pressed slot to the selection and leaving
\* the picker as it is
onCellPointerDown_Extends(pointerId, startSlot) ==
    /\ pointerId \notin contacts
    /\ contacts' = contacts \cup {pointerId}
    /\ anchorRef' = startSlot
    /\ selected' = selected \cup {startSlot}
    /\ gestureRef' = <<NewGesture(pointerId, 0, 0, startSlot)>>
    /\ UNCHANGED <<showPicker, day, globalSegments, calcVars, appVars>>

\* A pointer goes down on a grid cell: onCellPointerDown(e, startSlot).  The
\* page's own onPointerDown then returns at target.closest("[data-slot]").
\* The press point is the origin of the pointer coordinates.
onCellPointerDown(pointerId, startSlot) ==
    /\ pointerId \notin contacts
    /\ contacts' = contacts \cup {pointerId}
    /\ showPicker' = FALSE
    /\ anchorRef' = startSlot
    /\ selected' = {startSlot}
    /\ gestureRef' = <<NewGesture(pointerId, 0, 0, startSlot)>>
    /\ UNCHANGED <<day, globalSegments, calcVars, appVars>>

\* A pointer goes down on the record page outside the grid cells: the page's
\* onPointerDown clears the selection unless the target is inside a
\* data-noclear element.
onPagePointerDown(pointerId, place) ==
    /\ pointerId \notin contacts
    /\ contacts' = contacts \cup {pointerId}
    /\ IF place = "noclear"
       THEN UNCHANGED <<selected, showPicker>>
       ELSE clearSelection
    /\ UNCHANGED <<anchorRef, gestureRef, day, globalSegments, calcVars, appVars>>

\* A motion sample reaches the app root: onGridPointerMove(e).  A mouse
\* delivers samples also while no button is down.
onGridPointerMove(pointerId, clientX, clientY, cell) ==
    LET r == GridPointerMove(gestureRef, selected, pointerId, clientX, clientY, cell)
    IN  /\ gestureRef' = r.gestureRef
        /\ selected' = r.selected
        /\ UNCHANGED <<contacts, anchorRef, showPicker, day, globalSegments, calcVars, appVars>>

\* The motion samples enumerated for a pointer.  onGridPointerMove compares
\* the coordinates with the thresholds only while the tracked gesture is
\* pending, and runs its hit test only when the mode is then "hdrag": where
\* the handler's result does not depend on an input, one value stands for all.
Tracked(pointerId) ==
    /\ gestureRef # Null
    /\ gestureRef[1].active
    /\ gestureRef[1].pointerId = pointerId

SampleCoords(pointerId) ==
    IF Tracked(pointerId) /\ gestureRef[1].mode = "pending" THEN Coords ELSE {0}

SampleCells(pointerId, clientX, clientY) ==
    IF Tracked(pointerId) /\ ModeAfterSample(gestureRef[1], clientX, clientY) = "hdrag"
    THEN Cells \cup {NoCell}
    ELSE {NoCell}

\* A pointer is released: the app root's onPointerUp().
onPointerUp(pointerId) ==
    /\ pointerId \in contacts
    /\ contacts' = contacts \ {pointerId}
    /\ gestureRef' = Null
    /\ UNCHANGED <<selected, anchorRef, showPicker, day, globalSegments, calcVars, appVars>>

\* The browser cancels a pointer (it takes the touch over for a vertical
\* pan, touchAction: "pan-y").  The app registers onPointerUp and
\* onPointerMove on its root and no pointercancel handler.
onPointerCancel(pointerId) ==
    /\ pointerId \in contacts
    /\ contacts' = contacts \ {pointerId}
    /\ UNCHANGED <<selected, anchorRef, gestureRef, showPicker, day, globalSegments, calcVars, appVars>>

\* The sheet's "annotate" button, rendered while the selection is not empty.
openPicker ==
    /\ selected # {}
    /\ showPicker' = TRUE
    /\ UNCHANGED <<contacts, selected, anchorRef, gestureRef, day, globalSegments, calcVars, appVars>>

\* The picker's onClose.
closePicker ==
    /\ showPicker
    /\ showPicker' = FALSE
    /\ UNCHANGED <<contacts, selected, anchorRef, gestureRef, day, globalSegments, calcVars, appVars>>

\* The sheet's "cancel" button, rendered while the selection is not empty.
cancelSelection ==
    /\ selected # {}
    /\ clearSelection
    /\ UNCHANGED <<contacts, anchorRef, gestureRef, day, globalSegments, calcVars, appVars>>

Init ==
    /\ contacts = {}
    /\ selected = {}
    /\ anchorRef = NoSlot
    /\ gestureRef = Null
    /\ showPicker = FALSE
    /\ day = Null
    /\ globalSegments = [deps |-> Null, value |-> <<>>]
    /\ call = Null
    /\ ret = Null
    /\ NoApp

Next ==
    \/ \E p \in Pointers, s \in Cells : onCellPointerDown(p, s)
    \/ \E p \in Pointers, w \in Places : onPagePointerDown(p, w)
    \/ \E p \in Pointers :
          \E x \in SampleCoords(p), y \in SampleCoords(p) :
             \E c \in SampleCells(p, x, y) : onGridPointerMove(p, x, y, c)
    \/ \E p \in Pointers : onPointerUp(p)
    \/ \E p \in Pointers : onPointerCancel(p)
    \/ openPicker
    \/ closePicker
    \/ cancelSelection

Spec == Init /\ [][Next]_vars

\* ------------------------------------------------------------------------
\* Segment compressor
\* ------------------------------------------------------------------------
\* the inner loop running over every non-empty slot
RunEnd_AnyEvent(slots, j, eid) ==
    Least({ k \in j..TOTAL_SLOTS : ~(k < TOTAL_SLOTS /\ slots[k + 1] # EMPTY) })

\* the inner loop never entered
RunEnd_NoMerge(slots, j, eid) == j

\* let j = i + 1; while (j < TOTAL_SLOTS && day.slots[j] === eid) j++;
\* the value of j after the loop: the first index from j on at which the
\* loop's condition fails (slot index k of the code is element k + 1 of the
\* sequence)
RunEnd(slots, j, eid) ==
    Least({ k \in j..TOTAL_SLOTS : ~(k < TOTAL_SLOTS /\ slots[k + 1] = eid) })

\* if (!eid) { i++; continue; } taken as often as it applies: the first index
\* from i on that holds an event, TOTAL_SLOTS when there is none
SkipEmpty(slots, i) ==
    Least({ k \in i..TOTAL_SLOTS : ~(k < TOTAL_SLOTS /\ slots[k + 1] = EMPTY) })

\* the outer loop of globalSegments: while (i < TOTAL_SLOTS) { ... }, one
\* level per segment pushed
RECURSIVE ScanSegments(_, _, _)
ScanSegments(slots, from, segs) ==
    LET i == SkipEmpty(slots, from) IN
    IF i < TOTAL_SLOTS
    THEN LET eid == slots[i + 1]
             j == RunEnd(slots, i + 1, eid)
         IN  ScanSegments(slots, j,
                 Append(segs, [start |-> i, end |-> j, len |-> j - i, eventId |-> eid]))
    ELSE segs

\* the value of the globalSegments memo for a day
GlobalSegments(d) ==
    IF d = Null THEN <<>> ELSE ScanSegments(d[1].slots, 0, <<>>)

\* A render of App: the globalSegments memo is recomputed from day.
renderSegments ==
    /\ globalSegments.deps # day
    /\ globalSegments' = [deps |-> day, value |-> GlobalSegments(day)]
    /\ UNCHANGED <<contacts, selected, anchorRef, gestureRef, showPicker, day, calcVars, appVars>>

\* The state after a Day Log was loaded and set, before the next render.
InitSeg ==
    /\ contacts = {}
    /\ selected = {}
    /\ anchorRef = NoSlot
    /\ gestureRef = Null
    /\ showPicker = FALSE
    /\ day \in { <<[dateKey |-> "2024-01-01", slots |-> a]>> : a \in SlotArrays }
    /\ globalSegments = [deps |-> Null, value |-> <<>>]
    /\ call = Null
    /\ ret = Null
    /\ NoApp

NextSeg == renderSegments

SpecSeg == InitSeg /\ [][NextSeg]_vars

\* ------------------------------------------------------------------------
\* Vocabulary of the properties
\* ------------------------------------------------------------------------
Idle == gestureRef = Null
InMode(m) == gestureRef # Null /\ gestureRef[1].active /\ gestureRef[1].mode = m
\* the state a motion sample leaves untouched
Untouched == [gestureRef |-> gestureRef, selected |-> selected]
\* the inclusive range of slots between a and t
Between(a, t) == { i \in Slots : (a <= i /\ i <= t) \/ (t <= i /\ i <= a) }
\* what the tracked pointer's sample (x, y) over cell c makes of the state
Sample(x, y, c) ==
    GridPointerMove(gestureRef, selected, gestureRef[1].pointerId, x, y, c)

\* ------------------------------------------------------------------------
\* C1  A press on slot S sets the selection to exactly {S} and the mode to
\* pending; while pending, a sample of the tracked pointer that passes
\* neither the scroll test nor the drag test changes neither the selection
\* nor the gesture; a release leaves the selection as it is.  So a press,
\* sub-threshold motion and a release end with the selection {S}.
\* ------------------------------------------------------------------------
C1_SubThreshold(x, y) ==
    /\ ~(Abs(y) > 8 /\ 5 * Abs(y) > 6 * Abs(x))
    /\ ~(Abs(x) > 6 /\ 5 * Abs(x) > 6 * Abs(y))

C1_PendingHolds ==
    InMode("pending") =>
        \A x \in Coords, y \in Coords :
            C1_SubThreshold(x, y) =>
                \A c \in Cells \cup {NoCell} : Sample(x, y, c) = Untouched

C1_PressAndRelease ==
    /\ \A p \in Pointers, s \in Cells :
          onCellPointerDown(p, s) =>
              /\ selected' = {s}
              /\ gestureRef' # Null
              /\ gestureRef'[1].mode = "pending"
              /\ gestureRef'[1].startSlot = s
    /\ \A p \in Pointers : onPointerUp(p) => selected' = selected

C1_TapSelectsOneSlot == [][C1_PressAndRelease]_vars /\ []C1_PendingHolds

\* a tap has completed: no pointer is down, the recognizer is idle and the
\* selection is the pressed slot alone
C1_Witness ==
    /\ contacts = {}
    /\ Idle
    /\ anchorRef # NoSlot
    /\ selected = {anchorRef}

\* ------------------------------------------------------------------------
\* C2 (as stated)  In pending, a sample of the tracked pointer with
\* |dx| >= 6 and |dx| >= 1.2 |dy| over slot T makes the mode hdrag and the
\* selection the inclusive range between the anchor and T, the values
\* |dx| = 6 and |dx| = 1.2 |dy| included.
\* ------------------------------------------------------------------------
C2_DragAtBoundary ==
    InMode("pending") =>
        \A x \in Coords, y \in Coords :
            (Abs(x) >= 6 /\ 5 * Abs(x) >= 6 * Abs(y)) =>
                \A c \in Cells :
                    /\ Sample(x, y, c).gestureRef[1].mode = "hdrag"
                    /\ Sample(x, y, c).selected = Between(gestureRef[1].startSlot, c)

\* ------------------------------------------------------------------------
\* C2 (amended)  In pending, a sample of the tracked pointer with |dx| > 6
\* and |dx| > 1.2 |dy| over slot T makes the mode hdrag and the selection
\* the inclusive range between the anchor and T (|T - anchor| + 1 slots); a
\* sample with |dx| = 6 or |dx| = 1.2 |dy| does not start a drag.
\* ------------------------------------------------------------------------
C2_DragStarts ==
    InMode("pending") =>
        \A x \in Coords, y \in Coords :
            /\ (Abs(x) > 6 /\ 5 * Abs(x) > 6 * Abs(y)) =>
                  \A c \in Cells :
                      /\ Sample(x, y, c).gestureRef[1].mode = "hdrag"
                      /\ Sample(x, y, c).selected = Between(gestureRef[1].startSlot, c)
                      /\ Cardinality(Sample(x, y, c).selected)
                            = Abs(c - gestureRef[1].startSlot) + 1
            /\ (Abs(x) = 6 \/ 5 * Abs(x) = 6 * Abs(y)) =>
                  \A c \in Cells : Sample(x, y, c).gestureRef[1].mode # "hdrag"

\* a drag from slot SlotStride to slot 2 * SlotStride (10 to 20: 11 slots)
C2_Witness ==
    /\ InMode("hdrag")
    /\ gestureRef[1].startSlot = SlotStride
    /\ selected = SlotStride..(2 * SlotStride)
    /\ Cardinality(selected) = SlotStride + 1

\* ------------------------------------------------------------------------
\* C3 (as stated)  In pending, a sample of the tracked pointer whose
\* vertical travel is at least 8 px and at least 1.2 times the horizontal
\* travel makes the mode scroll.
\* ------------------------------------------------------------------------
C3_ScrollAtBoundary ==
    InMode("pending") =>
        \A x \in Coords, y \in Coords :
            (Abs(y) >= 8 /\ 5 * Abs(y) >= 6 * Abs(x)) =>
                Sample(x, y, NoCell).gestureRef[1].mode = "scroll"

\* ------------------------------------------------------------------------
\* C3 (amended)  In pending, a sample of the tracked pointer whose vertical
\* travel is more than 8 px and more than 1.2 times the horizontal travel
\* makes the mode scroll and leaves the selection as it is; in scroll, no
\* sample of the tracked pointer changes the mode or the selection, a
\* strongly horizontal one included.
\* ------------------------------------------------------------------------
C3_ScrollCancels ==
    /\ InMode("pending") =>
          \A x \in Coords, y \in Coords :
              (Abs(y) > 8 /\ 5 * Abs(y) > 6 * Abs(x)) =>
                  \A c \in Cells \cup {NoCell} :
                      /\ Sample(x, y, c).gestureRef[1].mode = "scroll"
                      /\ Sample(x, y, c).selected = selected
    /\ InMode("scroll") =>
          \A x \in ProbeCoords \cup {DRAG_START_PX + 1}, y \in ProbeCoords :
              \A c \in Cells \cup {NoCell} : Sample(x, y, c) = Untouched

\* the gesture was scroll-cancelled and the pressed slot alone is selected
C3_Witness ==
    /\ InMode("scroll")
    /\ selected = {gestureRef[1].startSlot}

\* ------------------------------------------------------------------------
\* C4  In hdrag with anchor A, a sample of the tracked pointer over slot T
\* sets the selection to the inclusive range between A and T, whatever the
\* coordinates and the selection before it; the same sample again gives the
\* same selection, and a slot between A and T gives a subset of it.
\* ------------------------------------------------------------------------
C4_RangeFollowsPointer ==
    InMode("hdrag") =>
        \A x \in ProbeCoords, y \in ProbeCoords : \A t \in Cells :
            LET a == gestureRef[1].startSlot
                r == Sample(x, y, t)
            IN  /\ r.selected = Between(a, t)
                /\ r.gestureRef = gestureRef
                /\ GridPointerMove(r.gestureRef, r.selected, gestureRef[1].pointerId,
                                   x, y, t) = r
                /\ GridPointerMove(gestureRef, {}, gestureRef[1].pointerId,
                                   0, 0, t).selected = r.selected
                /\ \A u \in Cells :
                      u \in Between(a, t) => Sample(x, y, u).selected \subseteq r.selected

\* a drag that spans several rows of the grid, ending before the anchor
C4_Witness ==
    /\ InMode("hdrag")
    /\ Cardinality(selected) > GRID_COLS
    /\ gestureRef[1].startSlot \in selected
    /\ \A i \in selected : i <= gestureRef[1].startSlot

\* ------------------------------------------------------------------------
\* C5 (as stated)  A pointer release or a pointer cancellation returns the
\* recognizer to idle, clearing the tracked-pointer record and the anchor
\* slot it holds, and leaves the selection as it is.
\* ------------------------------------------------------------------------
C5_ReleaseOrCancel ==
    \A p \in Pointers :
        (onPointerUp(p) \/ onPointerCancel(p)) =>
            /\ gestureRef' = Null
            /\ selected' = selected

C5_ReleaseLeavesNoState == [][C5_ReleaseOrCancel]_vars

\* ------------------------------------------------------------------------
\* C6  While an interaction is tracked for pointer P, a motion sample of a
\* pointer Q # P changes neither the gesture nor the selection, in every
\* mode.
\* ------------------------------------------------------------------------
C6_OtherPointerIgnored ==
    gestureRef # Null =>
        \A q \in Pointers \ {gestureRef[1].pointerId} :
            \A x \in ProbeCoords, y \in ProbeCoords : \A c \in Cells \cup {NoCell} :
                GridPointerMove(gestureRef, selected, q, x, y, c) = Untouched

\* pointer 1 is tracked in a horizontal drag while pointer 2 is down too
C6_Witness ==
    /\ InMode("hdrag")
    /\ gestureRef[1].pointerId = 1
    /\ contacts = {1, 2}

\* ------------------------------------------------------------------------
\* C7 (as stated)  While the interaction of pointer P is active (P pressed
\* a cell and is still down), a press or a release by another pointer Q
\* alters neither the tracked interaction nor the selection.
\* ------------------------------------------------------------------------
C7_OtherPointerStep ==
    \A q \in Pointers :
        ( /\ gestureRef # Null
          /\ gestureRef[1].pointerId \in contacts
          /\ q # gestureRef[1].pointerId
          /\ \/ onPointerUp(q)
             \/ \E s \in Cells : onCellPointerDown(q, s) )
        => UNCHANGED <<gestureRef, anchorRef, selected>>

C7_OverlapRejected == [][C7_OtherPointerStep]_vars

\* ------------------------------------------------------------------------
\* C8  A press on slot S' while the recognizer is idle and a selection is
\* showing makes the selection exactly {S'}, the anchor S', the gesture
\* pending at S', and closes the event picker.
\* ------------------------------------------------------------------------
C8_PressStep ==
    \A p \in Pointers, s \in Cells :
        (Idle /\ selected # {} /\ onCellPointerDown(p, s)) =>
            /\ selected' = {s}
            /\ anchorRef' = s
            /\ gestureRef' # Null
            /\ gestureRef'[1].startSlot = s
            /\ gestureRef'[1].pointerId = p
            /\ gestureRef'[1].mode = "pending"
            /\ showPicker' = FALSE

C8_PressReplacesSelection == [][C8_PressStep]_vars

\* a multi-slot selection of a finished interaction is showing with the
\* event picker open, and no pointer is down
C8_Witness ==
    /\ Idle
    /\ contacts = {}
    /\ Cardinality(selected) > 1
    /\ showPicker

\* ------------------------------------------------------------------------
\* Vocabulary of the segment properties: the memo's segments and the slot
\* array they were computed from (slot i of the code is element i + 1).
\* ------------------------------------------------------------------------
Segs == globalSegments.value
Rendered == globalSegments.deps # Null
SlotAt(i) == globalSegments.deps[1].slots[i + 1]
Covered(g) == { i \in Slots : g.start <= i /\ i < g.end }

\* ------------------------------------------------------------------------
\* C9  For a 96-entry slot array, every segment has start < end, the
\* segments are disjoint and ordered by strictly increasing start, every
\* slot inside a segment holds the segment's eventId, and the union of the
\* segments' slots is exactly the set of non-empty slots.
\* ------------------------------------------------------------------------
C9_SegmentsCoverNonEmpty ==
    Rendered =>
        /\ \A k \in 1..Len(Segs) :
              /\ 0 <= Segs[k].start
              /\ Segs[k].start < Segs[k].end
              /\ Segs[k].end <= TOTAL_SLOTS
              /\ \A i \in Covered(Segs[k]) : SlotAt(i) = Segs[k].eventId
        /\ \A k \in 1..(Len(Segs) - 1) :
              /\ Segs[k].end <= Segs[k + 1].start
              /\ Segs[k].start < Segs[k + 1].start
        /\ UNION { Covered(Segs[k]) : k \in 1..Len(Segs) }
              = { i \in Slots : SlotAt(i) # EMPTY }

\* a rendered array with an empty slot between two segments
C9_Witness ==
    /\ Rendered
    /\ Len(Segs) >= 2
    /\ \E k \in 1..(Len(Segs) - 1) : Segs[k].end < Segs[k + 1].start
    /\ \E i \in Slots : SlotAt(i) = EMPTY

\* ------------------------------------------------------------------------
\* C10  No two adjacent segments share an eventId and every segment is a
\* maximal run: the slot just before its start and the slot at its end,
\* when they exist, do not hold its eventId.
\* ------------------------------------------------------------------------
C10_SegmentsAreMaximalRuns ==
    Rendered =>
        /\ \A k \in 1..Len(Segs) :
              /\ Segs[k].start > 0 => SlotAt(Segs[k].start - 1) # Segs[k].eventId
              /\ Segs[k].end < TOTAL_SLOTS => SlotAt(Segs[k].end) # Segs[k].eventId
        /\ \A k \in 1..(Len(Segs) - 1) :
              Segs[k].end = Segs[k + 1].start => Segs[k].eventId # Segs[k + 1].eventId

\* a rendered array where a merged run of several slots touches a run of
\* another event
C10_Witness ==
    /\ Rendered
    /\ \E k \in 1..(Len(Segs) - 1) :
          /\ Segs[k].end = Segs[k + 1].start
          /\ Segs[k].end - Segs[k].start > 1

\* ------------------------------------------------------------------------
\* Row clipping of the segments (rowSegments of the grid rendering)
\* ------------------------------------------------------------------------
\* the piece with isEndHere compared with the row's edge
ClipToRow_RowEdge(g, rowStart, rowEnd) ==
    LET start == Max(g.start, rowStart)
        end == Min(g.end, rowEnd)
    IN  IF start >= end THEN Null
        ELSE << [eventId |-> g.eventId, totalLen |-> g.len,
                 startCol |-> start - rowStart, len |-> end - start,
                 isStartHere |-> (start = g.start),
                 isEndHere |-> (end = rowEnd)] >>

\* the callback of globalSegments.map(...): null, or the piece of g that
\* lies in the row [rowStart, rowEnd)
ClipToRow(g, rowStart, rowEnd) ==
    LET start == Max(g.start, rowStart)
        end == Min(g.end, rowEnd)
    IN  IF start >= end THEN Null
        ELSE << [eventId |-> g.eventId, totalLen |-> g.len,
                 startCol |-> start - rowStart, len |-> end - start,
                 isStartHere |-> (start = g.start),
                 isEndHere |-> (end = g.end)] >>

\* globalSegments.map(...).filter(Boolean) for the row r, from segment k on
RECURSIVE RowSegmentsFrom(_, _, _)
RowSegmentsFrom(segs, r, k) ==
    IF k > Len(segs) THEN <<>>
    ELSE ClipToRow(segs[k], r * GRID_COLS, r * GRID_COLS + GRID_COLS)
            \o RowSegmentsFrom(segs, r, k + 1)

RowSegments(segs, r) == RowSegmentsFrom(segs, r, 1)

\* ------------------------------------------------------------------------
\* C11  For every segment g of the memo and every row r in 0..11, a piece
\* is produced iff g meets the row's slots, the piece covers exactly the
\* slots of g in the row, isStartHere is true iff the piece starts at
\* g.start and isEndHere iff it ends at g.end; the row's list holds exactly
\* the pieces of the segments that meet the row.
\* ------------------------------------------------------------------------
RowSlots(r) == { i \in Slots : 8 * r <= i /\ i < 8 * r + 8 }
PieceSlots(r, c) == { i \in Slots : 8 * r + c.startCol <= i /\ i < 8 * r + c.startCol + c.len }

C11_PieceOf(g, r) ==
    LET c == ClipToRow(g, 8 * r, 8 * r + 8)
        meet == Covered(g) \cap RowSlots(r)
    IN  /\ (c # Null) <=> (meet # {})
        /\ c # Null =>
              /\ PieceSlots(r, c[1]) = meet
              /\ c[1].len = Cardinality(meet)
              /\ c[1].isStartHere <=> (8 * r + c[1].startCol = g.start)
              /\ c[1].isEndHere <=> (8 * r + c[1].startCol + c[1].len = g.end)
              /\ c[1].eventId = g.eventId
              /\ c[1].totalLen = g.end - g.start

C11_RowClipping ==
    Rendered =>
        \A r \in 0..11 :
            /\ \A k \in 1..Len(Segs) : C11_PieceOf(Segs[k], r)
            /\ Len(RowSegments(Segs, r))
                  = Cardinality({ k \in 1..Len(Segs) : Covered(Segs[k]) \cap RowSlots(r) # {} })
            /\ \A j \in 1..Len(RowSegments(Segs, r)) :
                  \E k \in 1..Len(Segs) :
                      ClipToRow(Segs[k], 8 * r, 8 * r + 8) = <<RowSegments(Segs, r)[j]>>

\* a rendered run that crosses a whole row: its piece there carries neither
\* flag, while another row holds a piece that starts and ends inside it
C11_Witness ==
    /\ Rendered
    /\ \E k \in 1..Len(Segs), r \in 0..11 :
          LET c == ClipToRow(Segs[k], 8 * r, 8 * r + 8)
          IN  c # Null /\ ~c[1].isStartHere /\ ~c[1].isEndHere
    /\ \E k \in 1..Len(Segs), r \in 0..11 :
          LET c == ClipToRow(Segs[k], 8 * r, 8 * r + 8)
          IN  c # Null /\ c[1].isStartHere /\ c[1].isEndHere /\ c[1].len < 8

\* ------------------------------------------------------------------------
\* Aggregation engine (aggregateDays)
\* ------------------------------------------------------------------------
\* A Map<string, number> is the sequence of its entries [id, n] in insertion
\* order; the events state is the sequence of its EventTag records.

\* the days a list handed to aggregateDays is made of: no day (null), an
\* empty day, a full day, the day of the end-to-end example (slots 0-3 one
\* event, 4-7 empty, 8 another), a day of alternating values, and a day
\* whose last slot alone is filled
AggSlotArrays ==
    { [i \in 1..TOTAL_SLOTS |-> EMPTY],
      [i \in 1..TOTAL_SLOTS |-> "evt_a"],
      [i \in 1..TOTAL_SLOTS |-> IF i <= 4 THEN "evt_a" ELSE IF i = 9 THEN "evt_b" ELSE EMPTY],
      [i \in 1..TOTAL_SLOTS |-> IF i % 3 = 0 THEN EMPTY ELSE IF i % 3 = 1 THEN "evt_b" ELSE "evt_a"],
      [i \in 1..TOTAL_SLOTS |-> IF i = TOTAL_SLOTS THEN "evt_b" ELSE EMPTY] }

AggDayEntries ==
    {Null} \cup { <<[dateKey |-> "2024-01-01", slots |-> a]>> : a \in AggSlotArrays }

\* the lists of at most MaxDays entries
AggDayLists == UNION { [1..n -> AggDayEntries] : n \in 1..MaxDays }

\* the events state: both events known (in two categories or in one), one
\* event deleted, all events deleted
EventLists ==
    { << [id |-> "evt_a", categoryId |-> "cat_x"], [id |-> "evt_b", categoryId |-> "cat_y"] >>,
      << [id |-> "evt_a", categoryId |-> "cat_x"], [id |-> "evt_b", categoryId |-> "cat_x"] >>,
      << [id |-> "evt_a", categoryId |-> "cat_x"] >>,
      << >> }

\* map.get(k) ?? 0
MapGet(m, k) ==
    LET at == { i \in 1..Len(m) : m[i].id = k }
    IN  IF at = {} THEN 0 ELSE m[CHOOSE i \in at : TRUE].n

\* map.set(k, v): an existing key keeps its place, a new key goes last
MapSet(m, k, v) ==
    IF \E i \in 1..Len(m) : m[i].id = k
    THEN [i \in 1..Len(m) |-> IF m[i].id = k THEN [id |-> k, n |-> v] ELSE m[i]]
    ELSE Append(m, [id |-> k, n |-> v])

\* eventById.get(eid): new Map(events.map((e) => [e.id, e])) keeps the last
\* event of an id
EventById(evts, eid) ==
    LET at == { i \in 1..Len(evts) : evts[i].id = eid }
    IN  IF at = {} THEN Null ELSE <<evts[CHOOSE i \in at : \A j \in at : j <= i]>>

\* a slot of a deleted event falls under another bucket name
CategoryOf_Uncategorized(evts, eid) ==
    LET ev == EventById(evts, eid)
    IN  IF ev = Null THEN "cat_none" ELSE ev[1].categoryId

\* ev?.categoryId ?? "cat_deleted"
CategoryOf(evts, eid) ==
    LET ev == EventById(evts, eid)
    IN  IF ev = Null THEN "cat_deleted" ELSE ev[1].categoryId

\* the loop body without a category count for a deleted event
AggSlot_DropsDeleted(acc, eid, evts) ==
    IF eid = EMPTY THEN acc
    ELSE LET catId == CategoryOf(evts, eid)
         IN  [totalSlots |-> acc.totalSlots + 1,
              byEventSlots |-> MapSet(acc.byEventSlots, eid, MapGet(acc.byEventSlots, eid) + 1),
              byCatSlots |-> IF EventById(evts, eid) = Null THEN acc.byCatSlots
                             ELSE MapSet(acc.byCatSlots, catId, MapGet(acc.byCatSlots, catId) + 1)]

\* the body of for (const eid of d.slots)
AggSlot(acc, eid, evts) ==
    IF eid = EMPTY THEN acc
    ELSE LET catId == CategoryOf(evts, eid)
         IN  [totalSlots |-> acc.totalSlots + 1,
              byEventSlots |-> MapSet(acc.byEventSlots, eid, MapGet(acc.byEventSlots, eid) + 1),
              byCatSlots |-> MapSet(acc.byCatSlots, catId, MapGet(acc.byCatSlots, catId) + 1)]

\* for (const eid of d.slots) over the elements lo..hi in order: the first
\* half of the range is folded, then the second half from its result. The
\* comparison makes the first half's result a value before the second half
\* starts, as the statements of a loop are; it is always true.
RECURSIVE AggSlotsIn(_, _, _, _, _)
AggSlotsIn(acc, slots, lo, hi, evts) ==
    IF lo > hi THEN acc
    ELSE IF lo = hi THEN AggSlot(acc, slots[lo], evts)
    ELSE LET mid == (lo + hi) \div 2
             left == AggSlotsIn(acc, slots, lo, mid, evts)
         IN  IF left.totalSlots >= 0
             THEN AggSlotsIn(left, slots, mid + 1, hi, evts)
             ELSE left

AggSlots(acc, slots, evts) == AggSlotsIn(acc, slots, 1, Len(slots), evts)

\* a null entry emptying what was counted before it
AggDay_NullResets(acc, d, evts) ==
    IF d = Null THEN [totalSlots |-> 0, byEventSlots |-> <<>>, byCatSlots |-> <<>>]
    ELSE AggSlots(acc, d[1].slots, evts)

\* the body of for (const d of days):
\* if (!d || !Array.isArray(d.slots)) continue; then the loop over d.slots
AggDay(acc, d, evts) ==
    IF d = Null THEN acc
    ELSE AggSlots(acc, d[1].slots, evts)

\* for (const d of days), from entry k on
RECURSIVE AggDays(_, _, _, _)
AggDays(acc, days, k, evts) ==
    IF k > Len(days) THEN acc
    ELSE AggDays(AggDay(acc, days[k], evts), days, k + 1, evts)

\* for (const [id, slots] of m.entries()) out.set(id, slots * SLOT_MINUTES)
ToMinutes(m) == [i \in 1..Len(m) |-> [id |-> m[i].id, n |-> m[i].n * SLOT_MINUTES]]

aggregateDays(days, evts) ==
    LET acc == AggDays([totalSlots |-> 0, byEventSlots |-> <<>>, byCatSlots |-> <<>>],
                       days, 1, evts)
    IN  [totalMinutes |-> acc.totalSlots * SLOT_MINUTES,
         byEvent |-> ToMinutes(acc.byEventSlots),
         byCat |-> ToMinutes(acc.byCatSlots)]

\* aggregateDays is called on a list of days and the current events
callAggregateDays ==
    /\ call # Null
    /\ call[1].fn = "aggregateDays"
    /\ ret = Null
    /\ ret' = <<aggregateDays(call[1].days, call[1].events)>>
    /\ UNCHANGED <<contacts, selected, anchorRef, gestureRef, showPicker, day,
                   globalSegments, call, appVars>>

InitAgg ==
    /\ contacts = {}
    /\ selected = {}
    /\ anchorRef = NoSlot
    /\ gestureRef = Null
    /\ showPicker = FALSE
    /\ day = Null
    /\ globalSegments = [deps |-> Null, value |-> <<>>]
    /\ call \in { <<[fn |-> "aggregateDays", days |-> ds, events |-> es]>> :
                    ds \in AggDayLists, es \in EventLists }
    /\ ret = Null
    /\ NoApp

NextAgg == callAggregateDays

SpecAgg == InitAgg /\ [][NextAgg]_vars

\* ------------------------------------------------------------------------
\* Vocabulary of the aggregation properties
\* ------------------------------------------------------------------------
Returned == ret # Null
Agg == ret[1]
AggArg == call[1]
RECURSIVE SumN(_)
SumN(m) == IF m = <<>> THEN 0 ELSE Head(m).n + SumN(Tail(m))
Keys(m) == { m[i].id : i \in 1..Len(m) }
NoRepeat(m) == \A i, j \in 1..Len(m) : m[i].id = m[j].id => i = j
\* the filled slots of the days of a list, as pairs <<day, slot>>
Filled(days) ==
    { ds \in (1..Len(days)) \X (1..TOTAL_SLOTS) :
         days[ds[1]] # Null /\ days[ds[1]][1].slots[ds[2]] # EMPTY }
ValueAt(days, ds) == days[ds[1]][1].slots[ds[2]]
\* the category a slot value counts for
Resolves(evts, e) ==
    IF \E i \in 1..Len(evts) : evts[i].id = e
    THEN (CHOOSE ev \in { evts[i] : i \in 1..Len(evts) } : ev.id = e).categoryId
    ELSE "cat_deleted"

\* ------------------------------------------------------------------------
\* C12  The minutes by event sum to totalMinutes, and so do the minutes by
\* category, also when slots hold events that the lookup does not know.
\* ------------------------------------------------------------------------
C12_Conservation ==
    Returned =>
        /\ SumN(Agg.byEvent) = Agg.totalMinutes
        /\ SumN(Agg.byCat) = Agg.totalMinutes

\* an aggregate that counts slots of a deleted event next to known ones
C12_Witness ==
    /\ Returned
    /\ "cat_deleted" \in Keys(Agg.byCat)
    /\ "cat_x" \in Keys(Agg.byCat)
    /\ Agg.totalMinutes > 0

\* ------------------------------------------------------------------------
\* C13  minutesByEventId[e] is 15 times the number of slots holding e,
\* minutesByCategoryId[c] is 15 times the number of filled slots whose event
\* resolves to c (to "cat_deleted" when no event matches), totalMinutes is
\* 15 times the number of filled slots; the maps have an entry exactly for
\* the ids that occur; one day with slots 0-3 one event, 4-7 empty and 8
\* another gives 75 minutes, 60 and 15.
\* ------------------------------------------------------------------------
C13_ExampleDay ==
    <<[dateKey |-> "2024-01-01",
       slots |-> [i \in 1..96 |-> IF i <= 4 THEN "evt_a" ELSE IF i = 9 THEN "evt_b" ELSE EMPTY]]>>

C13_Counts ==
    Returned =>
        LET days == AggArg.days
            evts == AggArg.events
            filled == Filled(days)
        IN  /\ Agg.totalMinutes = 15 * Cardinality(filled)
            /\ NoRepeat(Agg.byEvent)
            /\ NoRepeat(Agg.byCat)
            /\ Keys(Agg.byEvent) = { ValueAt(days, ds) : ds \in filled }
            /\ Keys(Agg.byCat) = { Resolves(evts, ValueAt(days, ds)) : ds \in filled }
            /\ \A e \in Keys(Agg.byEvent) :
                  MapGet(Agg.byEvent, e)
                     = 15 * Cardinality({ ds \in filled : ValueAt(days, ds) = e })
            /\ \A c \in Keys(Agg.byCat) :
                  MapGet(Agg.byCat, c)
                     = 15 * Cardinality({ ds \in filled :
                                            Resolves(evts, ValueAt(days, ds)) = c })
            /\ days = <<C13_ExampleDay>> =>
                  /\ Agg.totalMinutes = 75
                  /\ Agg.byEvent = << [id |-> "evt_a", n |-> 60], [id |-> "evt_b", n |-> 15] >>

\* the example day aggregated alone, its second event deleted
C13_Witness ==
    /\ Returned
    /\ AggArg.days = <<C13_ExampleDay>>
    /\ Agg.totalMinutes = 75
    /\ MapGet(Agg.byCat, "cat_deleted") = 15

\* ------------------------------------------------------------------------
\* C14  A list with null entries gives the aggregate of the list without
\* them: the days before and after a null are counted, and a list of nulls
\* alone gives 0 minutes and empty maps.
\* ------------------------------------------------------------------------
C14_NullsSkipped ==
    Returned =>
        LET days == AggArg.days
            kept == SelectSeq(days, LAMBDA d : d # Null)
        IN  /\ Agg = aggregateDays(kept, AggArg.events)
            /\ Agg.totalMinutes
                  = 15 * Cardinality({ ds \in (1..Len(days)) \X (1..96) :
                        days[ds[1]] # Null /\ days[ds[1]][1].slots[ds[2]] # EMPTY })
            /\ kept = <<>> =>
                  Agg = [totalMinutes |-> 0, byEvent |-> <<>>, byCat |-> <<>>]

\* a null between two days with filled slots, both counted
C14_Witness ==
    /\ Returned
    /\ Len(AggArg.days) = 3
    /\ AggArg.days[2] = Null
    /\ AggArg.days[1] = C13_ExampleDay
    /\ AggArg.days[3] = C13_ExampleDay
    /\ Agg.totalMinutes = 150

\* ------------------------------------------------------------------------
\* Ranking (topNFromMap)
\* ------------------------------------------------------------------------
\* the maps handed to topNFromMap: at most MaxEntries entries of distinct
\* ids, each of 0..MaxQuarters quarter hours
TopIds == { ToString(i) : i \in 1..MaxEntries }
TopMinutes == { q * SLOT_MINUTES : q \in 0..MaxQuarters }
TopMaps ==
    UNION { { m \in [1..k -> [id : TopIds, n : TopMinutes]] :
                 \A i, j \in 1..k : m[i].id = m[j].id => i = j } : k \in 0..MaxEntries }

\* an entry goes before the entries of equal minutes
SortInsert_BeforeEqual(sorted, x) ==
    LET before == { i \in 1..Len(sorted) : sorted[i].minutes > x.minutes }
        k == Cardinality(before)
    IN  SubSeq(sorted, 1, k) \o <<x>> \o SubSeq(sorted, k + 1, Len(sorted))

\* the place of one more element in an array sorted by (a, b) => b.minutes -
\* a.minutes: Array.prototype.sort is stable, so an element stays behind the
\* earlier elements that compare equal to it
SortInsert(sorted, x) ==
    LET before == { i \in 1..Len(sorted) : sorted[i].minutes >= x.minutes }
        k == Cardinality(before)
    IN  SubSeq(sorted, 1, k) \o <<x>> \o SubSeq(sorted, k + 1, Len(sorted))

\* .sort((a, b) => b.minutes - a.minutes), the elements taken in array order
RECURSIVE SortDesc(_, _, _)
SortDesc(sorted, arr, k) ==
    IF k > Len(arr) THEN sorted
    ELSE SortDesc(SortInsert(sorted, arr[k]), arr, k + 1)

\* .slice(0, n)
Slice0(arr, n) ==
    LET end == IF n < 0 THEN Max(Len(arr) + n, 0) ELSE Min(n, Len(arr))
    IN  SubSeq(arr, 1, end)

topNFromMap(map, n) ==
    LET entries == [i \in 1..Len(map) |-> [id |-> map[i].id, minutes |-> map[i].n]]
    IN  Slice0(SortDesc(<<>>, entries, 1), n)

\* topNFromMap is called on the map, which it leaves as it is; ret collects
\* the values returned by the calls
callTopNFromMap ==
    /\ call # Null
    /\ call[1].fn = "topNFromMap"
    /\ Len(ret) < 2
    /\ ret' = Append(ret, topNFromMap(call[1].map, call[1].n))
    /\ UNCHANGED <<contacts, selected, anchorRef, gestureRef, showPicker, day,
                   globalSegments, call, appVars>>

InitTop ==
    /\ contacts = {}
    /\ selected = {}
    /\ anchorRef = NoSlot
    /\ gestureRef = Null
    /\ showPicker = FALSE
    /\ day = Null
    /\ globalSegments = [deps |-> Null, value |-> <<>>]
    /\ call \in { <<[fn |-> "topNFromMap", map |-> m, n |-> n]>> :
                    m \in TopMaps, n \in 0..(MaxEntries + 1) }
    /\ ret = Null
    /\ NoApp

NextTop == callTopNFromMap

SpecTop == InitTop /\ [][NextTop]_vars

\* ------------------------------------------------------------------------
\* C15  topN returns min(n, size) entries of the map in non-increasing order
\* of minutes, entries of equal minutes in the map's insertion order, no
\* omitted entry has more minutes than a returned one, and a second call on
\* the unchanged map returns the same sequence.
\* ------------------------------------------------------------------------
C15_PlaceIn(map, id) == CHOOSE i \in 1..Len(map) : map[i].id = id

C15_TopN ==
    Returned =>
        LET map == call[1].map
            out == ret[1]
            ids == { out[i].id : i \in 1..Len(out) }
        IN  /\ Len(out) = Min(call[1].n, Len(map))
            /\ \A i \in 1..Len(out) :
                  \E j \in 1..Len(map) : map[j].id = out[i].id /\ map[j].n = out[i].minutes
            /\ \A i, j \in 1..Len(out) :
                  i < j =>
                     /\ out[i].id # out[j].id
                     /\ out[i].minutes >= out[j].minutes
                     /\ out[i].minutes = out[j].minutes =>
                           C15_PlaceIn(map, out[i].id) < C15_PlaceIn(map, out[j].id)
            /\ \A j \in 1..Len(map) :
                  map[j].id \notin ids => \A i \in 1..Len(out) : map[j].n <= out[i].minutes
            /\ Len(ret) = 2 => ret[2] = ret[1]

\* two calls on a map whose first entry is left out behind two later entries
\* of equal minutes
C15_Witness ==
    /\ Len(ret) = 2
    /\ Len(ret[1]) = 2
    /\ Len(call[1].map) = 3
    /\ ret[1][1].minutes = ret[1][2].minutes
    /\ call[1].map[1].n < ret[1][1].minutes
    /\ call[1].map[2].id = ret[1][1].id

\* ------------------------------------------------------------------------
\* Slot index and clock time (slotToTime, hmToMinutes, calcNowSlot)
\* ------------------------------------------------------------------------
\* A string is the sequence of its characters.
Digit == <<"0", "1", "2", "3", "4", "5", "6", "7", "8", "9">>

\* String(n) of an integer n >= 0
RECURSIVE DigitsOf(_)
DigitsOf(n) ==
    IF n < 10 THEN <<Digit[n + 1]>>
    ELSE Append(DigitsOf(n \div 10), Digit[(n % 10) + 1])

\* String(n).padStart(2, "0")
pad2(n) ==
    LET str == DigitsOf(n)
    IN  IF Len(str) >= 2 THEN str ELSE <<"0">> \o str

\* Number(str) of a string of decimal digits
RECURSIVE NumberOf(_)
NumberOf(str) ==
    IF str = <<>> THEN 0
    ELSE LET last == str[Len(str)]
             d == CHOOSE k \in 0..9 : Digit[k + 1] = last
         IN  10 * NumberOf(SubSeq(str, 1, Len(str) - 1)) + d

\* str.split(sep).map(Number)
RECURSIVE SplitNumbers(_, _)
SplitNumbers(str, sep) ==
    LET at == { i \in 1..Len(str) : str[i] = sep }
    IN  IF at = {} THEN <<NumberOf(str)>>
        ELSE LET i == CHOOSE k \in at : \A l \in at : k <= l
             IN  <<NumberOf(SubSeq(str, 1, i - 1))>>
                    \o SplitNumbers(SubSeq(str, i + 1, Len(str)), sep)

\* the display hour not taken modulo 24
slotToTime_PastMidnight(slotIndex) ==
    LET totalMinutes == slotIndex * SLOT_MINUTES
        h == totalMinutes \div 60
        min == totalMinutes % 60
        displayHour == START_HOUR + h
    IN  pad2(displayHour) \o <<":">> \o pad2(min)

slotToTime(slotIndex) ==
    LET totalMinutes == slotIndex * SLOT_MINUTES
        h == totalMinutes \div 60
        min == totalMinutes % 60
        displayHour == (START_HOUR + h) % 24
    IN  pad2(displayHour) \o <<":">> \o pad2(min)

hmToMinutes(hm) ==
    LET parts == SplitNumbers(hm, ":")
    IN  parts[1] * 60 + parts[2]

\* calcNowSlot at a clock reading of hours:minutes; NoSlot is its null
calcNowSlot(hours, minutes) ==
    LET minutesNow == hours * 60 + minutes
        startMinutes == START_HOUR * 60
        d0 == minutesNow - startMinutes
        delta == IF d0 < 0 THEN d0 + 24 * 60 ELSE d0
        idx == delta \div SLOT_MINUTES
    IN  IF idx < 0 \/ idx >= TOTAL_SLOTS THEN NoSlot ELSE idx

callSlotToTime ==
    /\ call # Null
    /\ call[1].fn = "slotToTime"
    /\ ret = Null
    /\ ret' = <<slotToTime(call[1].slotIndex)>>
    /\ UNCHANGED <<contacts, selected, anchorRef, gestureRef, showPicker, day,
                   globalSegments, call, appVars>>

\* the tick of the now indicator
callCalcNowSlot ==
    /\ call # Null
    /\ call[1].fn = "calcNowSlot"
    /\ ret = Null
    /\ ret' = <<calcNowSlot(call[1].hours, call[1].minutes)>>
    /\ UNCHANGED <<contacts, selected, anchorRef, gestureRef, showPicker, day,
                   globalSegments, call, appVars>>

InitTime ==
    /\ contacts = {}
    /\ selected = {}
    /\ anchorRef = NoSlot
    /\ gestureRef = Null
    /\ showPicker = FALSE
    /\ day = Null
    /\ globalSegments = [deps |-> Null, value |-> <<>>]
    /\ call \in { <<[fn |-> "slotToTime", slotIndex |-> i]>> : i \in Slots }
              \cup { <<[fn |-> "calcNowSlot", hours |-> h, minutes |-> m]>> :
                       h \in 0..23, m \in 0..59 }
    /\ ret = Null
    /\ NoApp

NextTime == callSlotToTime \/ callCalcNowSlot

SpecTime == InitTime /\ [][NextTime]_vars

\* ------------------------------------------------------------------------
\* C16  slotToTime(i) is the HH:MM form of (8*60 + 15*i) mod 1440 for every
\* i in 0..95; the mapping is one to one onto the 96 quarter-hour clock
\* times; reading the result back as the now indicator does (minutes since
\* 08:00 modulo 1440, divided by 15) returns i.
\* ------------------------------------------------------------------------
C16_HHMM(h, m) ==
    << Digit[(h \div 10) + 1], Digit[(h % 10) + 1], ":",
       Digit[(m \div 10) + 1], Digit[(m % 10) + 1] >>

C16_QuarterHours == { C16_HHMM(h, 15 * q) : h \in 0..23, q \in 0..3 }

C16_SlotTimeRoundTrip ==
    /\ (Returned /\ call[1].fn = "slotToTime") =>
          LET i == call[1].slotIndex
              t == ret[1]
              clock == (8 * 60 + 15 * i) % 1440
              hm == hmToMinutes(t)
          IN  /\ t = C16_HHMM(clock \div 60, clock % 60)
              /\ t \in C16_QuarterHours
              /\ \A j \in 0..95 : j # i => slotToTime(j) # t
              /\ hm = clock
              /\ calcNowSlot(hm \div 60, hm % 60) = i
    /\ (Returned /\ call[1].fn = "calcNowSlot") =>
          LET h == call[1].hours
              m == call[1].minutes
          IN  /\ ret[1] \in 0..95
              /\ slotToTime(ret[1]) = C16_HHMM(h, 15 * (m \div 15))
    /\ Cardinality({ slotToTime(j) : j \in 0..95 }) = 96
    /\ { slotToTime(j) : j \in 0..95 } = C16_QuarterHours

\* the slot at midnight, past the wrap of the display hour
C16_Witness ==
    /\ Returned
    /\ call[1].fn = "slotToTime"
    /\ call[1].slotIndex = 64
    /\ ret[1] = <<"0", "0", ":", "0", "0">>

\* ------------------------------------------------------------------------
\* Calendar arithmetic (toDateKey, addDays, getWeekStartKey)
\* ------------------------------------------------------------------------
\* A Date built from (year, monthIndex, date) holds a local midnight; it is
\* the number t of days from 1970-01-01 to its local calendar day. The local
\* time zone is taken to have every calendar day.

\* MakeDay: the day number of the date-th day (any integer) of month
\* monthIndex (0-based, any integer) of a year, in the proleptic Gregorian
\* calendar
DaysFromCivil(year, monthIndex, date) ==
    LET ym == year + (monthIndex \div 12)
        mn == (monthIndex % 12) + 1
        y == IF mn <= 2 THEN ym - 1 ELSE ym
        era == y \div 400
        yoe == y - era * 400
        mp == IF mn > 2 THEN mn - 3 ELSE mn + 9
        doy == ((153 * mp + 2) \div 5) + date - 1
        doe == yoe * 365 + (yoe \div 4) - (yoe \div 100) + doy
    IN  era * 146097 + doe - 719468

\* YearFromTime, MonthFromTime (0-based), DateFromTime of a day number
CivilFromDays(t) ==
    LET z == t + 719468
        era == z \div 146097
        doe == z - era * 146097
        yoe == (doe - (doe \div 1460) + (doe \div 36524) - (doe \div 146096)) \div 365
        doy == doe - (365 * yoe + (yoe \div 4) - (yoe \div 100))
        mp == (5 * doy + 2) \div 153
        d == doy - ((153 * mp + 2) \div 5) + 1
        m == IF mp < 10 THEN mp + 3 ELSE mp - 9
        y == yoe + era * 400 + (IF m <= 2 THEN 1 ELSE 0)
    IN  [year |-> y, month |-> m - 1, date |-> d]

\* new Date(y, monthIndex, d): a year of 0..99 stands for 1900 + year
NewDate(y, monthIndex, d) ==
    LET yr == IF 0 <= y /\ y <= 99 THEN 1900 + y ELSE y
    IN  DaysFromCivil(yr, monthIndex, d)

getFullYear(t) == CivilFromDays(t).year
getMonth(t) == CivilFromDays(t).month
getDate(t) == CivilFromDays(t).date
\* 0 Sun .. 6 Sat; 1970-01-01 was a Thursday
getDay(t) == (t + 4) % 7
\* dt.setDate(n)
setDate(t, n) == DaysFromCivil(getFullYear(t), getMonth(t), n)

toDateKey(t) ==
    DigitsOf(getFullYear(t)) \o <<"-">> \o pad2(getMonth(t) + 1) \o <<"-">> \o pad2(getDate(t))

addDays(dKey, delta) ==
    LET ymd == SplitNumbers(dKey, "-")
        dt == NewDate(ymd[1], ymd[2] - 1, ymd[3])
    IN  toDateKey(setDate(dt, getDate(dt) + delta))

\* the week start taken on the Sunday on or before the date
getWeekStartKey_Sunday(dKey) ==
    LET ymd == SplitNumbers(dKey, "-")
        dt == NewDate(ymd[1], ymd[2] - 1, ymd[3])
        deltaToMon == getDay(dt) % 7
    IN  toDateKey(setDate(dt, getDate(dt) - deltaToMon))

getWeekStartKey(dKey) ==
    LET ymd == SplitNumbers(dKey, "-")
        dt == NewDate(ymd[1], ymd[2] - 1, ymd[3])
        deltaToMon == (getDay(dt) + 6) % 7
    IN  toDateKey(setDate(dt, getDate(dt) - deltaToMon))

\* the week window of the stats effect: startKey and weekKeys
weekKeys(dKey) ==
    LET startKey == getWeekStartKey(dKey)
    IN  [startKey |-> startKey, weekKeys |-> [i \in 1..7 |-> addDays(startKey, i - 1)]]

\* the date keys of the calendar days of the years of the model: a first
\* year of four digits, century years that are and are not leap years, a
\* leap year and the years next to it
DateYears == {1000, 1900, 2000, 2023, 2024, 2025}
DaysIn(y, m) ==
    IF m = 2
    THEN (IF (y % 4 = 0 /\ y % 100 # 0) \/ y % 400 = 0 THEN 29 ELSE 28)
    ELSE IF m \in {4, 6, 9, 11} THEN 30 ELSE 31
DateKeys ==
    UNION { UNION { { DigitsOf(y) \o <<"-">> \o pad2(m) \o <<"-">> \o pad2(d) :
                         d \in 1..DaysIn(y, m) } : m \in 1..12 } : y \in DateYears }

\* the deltas: a few days either way, and FarDays days either way
DayDeltas == (-MaxDayDelta..MaxDayDelta) \cup {-FarDays, FarDays}

\* addDays is called on the date key, then on its result with the delta
\* negated; ret collects the values returned
callAddDays ==
    /\ call # Null
    /\ call[1].fn = "addDays"
    /\ Len(ret) < 2
    /\ ret' = IF ret = Null
              THEN <<addDays(call[1].dateKey, call[1].delta)>>
              ELSE Append(ret, addDays(ret[1], -call[1].delta))
    /\ UNCHANGED <<contacts, selected, anchorRef, gestureRef, showPicker, day,
                   globalSegments, call, appVars>>

\* the stats effect computes the week window of the date key
callWeekKeys ==
    /\ call # Null
    /\ call[1].fn = "weekKeys"
    /\ ret = Null
    /\ ret' = <<weekKeys(call[1].dateKey)>>
    /\ UNCHANGED <<contacts, selected, anchorRef, gestureRef, showPicker, day,
                   globalSegments, call, appVars>>

InitDate ==
    /\ contacts = {}
    /\ selected = {}
    /\ anchorRef = NoSlot
    /\ gestureRef = Null
    /\ showPicker = FALSE
    /\ day = Null
    /\ globalSegments = [deps |-> Null, value |-> <<>>]
    /\ call \in { <<[fn |-> "addDays", dateKey |-> k, delta |-> d]>> :
                    k \in DateKeys, d \in DayDeltas }
              \cup { <<[fn |-> "weekKeys", dateKey |-> k]>> : k \in DateKeys }
    /\ ret = Null
    /\ NoApp

NextDate == callAddDays \/ callWeekKeys

SpecDate == InitDate /\ [][NextDate]_vars

\* ------------------------------------------------------------------------
\* C17  For every date key and every delta, positive, zero or negative,
\* addDays(addDays(dateKey, delta), -delta) is dateKey, also across a month
\* end, a year end or 29 February.
\* ------------------------------------------------------------------------
C17_AddDaysRoundTrip ==
    (call # Null /\ call[1].fn = "addDays" /\ Len(ret) = 2) =>
        ret[2] = call[1].dateKey

\* ------------------------------------------------------------------------
\* C18  weekStart(dateKey) is a Monday, dateKey itself or one of the 6 days
\* before it, and the week window is the 7 consecutive dates from that
\* Monday on, dateKey among them.
\* ------------------------------------------------------------------------
\* the day number of the calendar day a key names, its year as written
C18_DayOf(key) ==
    LET ymd == SplitNumbers(key, "-")
    IN  DaysFromCivil(ymd[1], ymd[2] - 1, ymd[3])

\* 2024-01-01 was a Monday
C18_IsMonday(t) == (t - DaysFromCivil(2024, 0, 1)) % 7 = 0

SettingsKey == <<"settings">>
CategoriesKey == <<"categories">>
EventsKey == <<"events">>
RecentKey == <<"recentEvents">>
\* `day:${dateKey}`
DayKey(dKey) == <<"day:">> \o dKey

\* (await store.getItem(key)): null, or the item
GetItem(st, key) == IF key \in DOMAIN st THEN <<st[key]>> ELSE Null
\* store.setItem(key, value)
SetItem(st, key, value) ==
    [k \in (DOMAIN st) \cup {key} |-> IF k = key THEN value ELSE st[k]]

\* the names of the default events stand for the Chinese names of the source;
\* "sleep" is the name findSleepEventId looks for
DefaultSettings ==
    [nightStart |-> <<"2", "3", ":", "0", "0">>, nightEnd |-> <<"0", "8", ":", "0", "0">>,
     nightDisplay30 |-> FALSE, themeMode |-> "system"]
DefaultCategories ==
    << [id |-> "cat_life", name |-> "life"], [id |-> "cat_study", name |-> "study"],
       [id |-> "cat_work", name |-> "work"] >>
DefaultEvents ==
    << [id |-> "evt_life_sleep", categoryId |-> "cat_life", name |-> "sleep", fixed |-> TRUE],
       [id |-> "evt_life_commute", categoryId |-> "cat_life", name |-> "commute", fixed |-> TRUE],
       [id |-> "evt_life_eat", categoryId |-> "cat_life", name |-> "eat", fixed |-> TRUE],
       [id |-> "evt_study_english", categoryId |-> "cat_study", name |-> "english", fixed |-> TRUE],
       [id |-> "evt_work_only", categoryId |-> "cat_work", name |-> "", fixed |-> FALSE] >>
DefaultRecent ==
    <<"evt_life_sleep", "evt_life_eat", "evt_life_commute", "evt_study_english", "evt_work_only">>

\* the date of the runs, toDateKey() of the clock, and the dates the date
\* buttons reach from it
AppToday == DigitsOf(2024) \o <<"-">> \o pad2(3) \o <<"-">> \o pad2(1)
AppDateKeys == { addDays(AppToday, d) : d \in (0 - MaxNav)..MaxNav }

EmptySlots == [i \in 1..TOTAL_SLOTS |-> EMPTY]
\* slots 0-3 and 95 sleep, slot 8 work
SlotsA ==
    [i \in 1..TOTAL_SLOTS |->
        IF i <= 4 \/ i = TOTAL_SLOTS THEN "evt_life_sleep"
        ELSE IF i = 9 THEN "evt_work_only" ELSE EMPTY]
\* slot 0 work, slots 4-9 sleep, slot 94 an event that is fixed by default
SlotsB ==
    [i \in 1..TOTAL_SLOTS |->
        IF i = 1 THEN "evt_work_only"
        ELSE IF i >= 5 /\ i <= 10 THEN "evt_life_sleep"
        ELSE IF i = TOTAL_SLOTS - 1 THEN "evt_life_eat" ELSE EMPTY]

\* the events a returning user has kept
KeptEvents == << DefaultEvents[1], DefaultEvents[5] >>
KeptRecent == <<"evt_work_only", "evt_life_sleep">>

\* The stores the app starts on: the empty store of a first run; a store
\* with the logs of the day and of the day before; a store whose logs have
\* 95 slots, 97 slots and no slots.
StoreOfMeta ==
    [k \in {SettingsKey, CategoriesKey, EventsKey, RecentKey} |->
        IF k = SettingsKey THEN DefaultSettings
        ELSE IF k = CategoriesKey THEN DefaultCategories
        ELSE IF k = EventsKey THEN KeptEvents ELSE KeptRecent]
InitialStores ==
    { Null,
      SetItem(SetItem(StoreOfMeta,
         DayKey(AppToday), [dateKey |-> AppToday, slots |-> SlotsA]),
         DayKey(addDays(AppToday, -1)), [dateKey |-> addDays(AppToday, -1), slots |-> SlotsB]),
      SetItem(SetItem(SetItem(StoreOfMeta,
         DayKey(AppToday), [dateKey |-> AppToday, slots |-> SubSeq(SlotsA, 1, TOTAL_SLOTS - 1)]),
         DayKey(addDays(AppToday, 1)), [dateKey |-> addDays(AppToday, 1), slots |-> Append(SlotsB, EMPTY)]),
         DayKey(addDays(AppToday, -1)), [dateKey |-> addDays(AppToday, -1)]) }

\* a stored value taken for a Day Log when it has slots, of any count
ValidDay_AnyLength(d) ==
    /\ d # Null
    /\ "slots" \in DOMAIN d[1]

\* d?.slots?.length === TOTAL_SLOTS, d the result of getItem
ValidDay(d) ==
    /\ d # Null
    /\ "slots" \in DOMAIN d[1]
    /\ Len(d[1].slots) = TOTAL_SLOTS

RemoveAt(seq, i) == SubSeq(seq, 1, i - 1) \o SubSeq(seq, i + 1, Len(seq))

\* the call of loadOrInitDay(key) by the function fn, up to its first await
CallLoadOrInitDay(st, fn, key, env) ==
    [fn |-> fn, at |-> "lo_got", key |-> key, val |-> GetItem(st, DayKey(key)), env |-> env]

\* the load-day effect, run when dateKey has changed to key
LoadDayEffect(st, key) == CallLoadOrInitDay(st, "loadDay", key, Null)

\* the persist-meta effect, run when categories, events or recentEvents were
\* set: saveMeta up to its first await; the store and the new tasks
PersistMeta(st, cats, evts, rec) ==
    IF Len(cats) = 0 /\ Len(evts) = 0
    THEN [store |-> st, tasks |-> <<>>]
    ELSE [store |-> SetItem(st, CategoriesKey, cats),
          tasks |-> <<[fn |-> "saveMeta", at |-> "sm_evt", evts |-> evts, rec |-> rec]>>]

\* saveMeta after the await of a setItem
saveMetaStep(i) ==
    LET t == tasks[i]
    IN  /\ t.fn = "saveMeta"
        /\ IF t.at = "sm_evt"
           THEN /\ store' = SetItem(store, EventsKey, t.evts)
                /\ tasks' = [tasks EXCEPT ![i] = [t EXCEPT !.at = "sm_rec"]]
           ELSE /\ store' = SetItem(store, RecentKey, t.rec)
                /\ tasks' = RemoveAt(tasks, i)
        /\ UNCHANGED <<contacts, selected, anchorRef, gestureRef, showPicker, day,
                       globalSegments, calcVars, dateKey, settings, categories, events,
                       recentEvents, booting, alerts, ops>>

\* copyFixedFromPrevDay after prev = await loadOrInitDay(prevKey): day and
\* events are the ones of the render the button was clicked in
CopyFixedNext(day0, events0, prev) ==
    LET fixedSet == { events0[k].id : k \in { k \in 1..Len(events0) : events0[k].fixed } }
    IN  [day0 EXCEPT !.slots =
            [i \in 1..Len(day0.slots) |->
                IF i > TOTAL_SLOTS THEN day0.slots[i]
                ELSE IF day0.slots[i] # EMPTY THEN day0.slots[i]
                ELSE IF prev.slots[i] # EMPTY /\ prev.slots[i] \in fixedSet
                     THEN prev.slots[i] ELSE day0.slots[i]]]

\* loadOrInitDay returns d to the function that awaits it
AfterLoadOrInitDay(i, d, st) ==
    LET t == tasks[i]
    IN  IF t.fn = "loadDay"
        THEN /\ day' = <<d>>
             /\ selected' = {}
             /\ anchorRef' = NoSlot
             /\ showPicker' = FALSE
             /\ gestureRef' = Null
             /\ store' = st
             /\ tasks' = RemoveAt(tasks, i)
             /\ UNCHANGED <<contacts, globalSegments, calcVars, dateKey, settings,
                            categories, events, recentEvents, booting, alerts, ops>>
        ELSE LET next == CopyFixedNext(t.env.day, t.env.events, d)
             IN  /\ day' = <<next>>
                 /\ store' = SetItem(st, DayKey(next.dateKey), next)
                 /\ tasks' = [tasks EXCEPT ![i] = [fn |-> "copyFixed", at |-> "cf_saved"]]
                 /\ UNCHANGED <<contacts, selected, anchorRef, gestureRef, showPicker,
                                globalSegments, calcVars, dateKey, settings, categories,
                                events, recentEvents, booting, alerts, ops>>

\* loadOrInitDay after d = await store.getItem(key)
loadOrInitDayGot(i) ==
    LET t == tasks[i]
        fresh == [dateKey |-> t.key, slots |-> EmptySlots]
    IN  /\ t.at = "lo_got"
        /\ IF ValidDay(t.val)
           THEN AfterLoadOrInitDay(i, t.val[1], store)
           ELSE /\ store' = SetItem(store, DayKey(t.key), fresh)
                /\ tasks' = [tasks EXCEPT ![i] = [t EXCEPT !.at = "lo_set", !.val = <<fresh>>]]
                /\ UNCHANGED <<contacts, selected, anchorRef, gestureRef, showPicker, day,
                               globalSegments, calcVars, dateKey, settings, categories,
                               events, recentEvents, booting, alerts, ops>>

\* loadOrInitDay after await store.setItem(key, fresh)
loadOrInitDaySet(i) ==
    /\ tasks[i].at = "lo_set"
    /\ AfterLoadOrInitDay(i, tasks[i].val[1], store)

\* copyFixedFromPrevDay after await saveDay(next)
copyFixedSaved(i) ==
    /\ tasks[i].at = "cf_saved"
    /\ tasks' = RemoveAt(tasks, i)
    /\ UNCHANGED <<contacts, selected, anchorRef, gestureRef, showPicker, day,
                   globalSegments, calcVars, store, dateKey, settings, categories,
                   events, recentEvents, booting, alerts, ops>>

\* loadSettings returns s to the function that awaits it (the init effect or
\* importJSON): setSettings(s), whose persist effect saves s, then the call
\* of loadMeta up to its first await
AfterLoadSettings(i, s, st) ==
    /\ settings' = s
    /\ store' = SetItem(st, SettingsKey, s)
    /\ tasks' = [tasks EXCEPT ![i] =
                    [tasks[i] EXCEPT !.at = "lm_cat", !.val = GetItem(st, CategoriesKey)]]
    /\ UNCHANGED <<contacts, selected, anchorRef, gestureRef, showPicker, day,
                   globalSegments, calcVars, dateKey, categories, events, recentEvents,
                   booting, alerts, ops>>

\* loadSettings after s = await store.getItem("settings")
loadSettingsGot(i) ==
    LET t == tasks[i]
    IN  /\ t.at = "ls_got"
        /\ IF t.val # Null
           THEN AfterLoadSettings(i, t.val[1], store)
           ELSE /\ store' = SetItem(store, SettingsKey, DefaultSettings)
                /\ tasks' = [tasks EXCEPT ![i] =
                                [t EXCEPT !.at = "ls_set", !.val = <<DefaultSettings>>]]
                /\ UNCHANGED <<contacts, selected, anchorRef, gestureRef, showPicker, day,
                               globalSegments, calcVars, dateKey, settings, categories,
                               events, recentEvents, booting, alerts, ops>>

\* loadSettings after await store.setItem("settings", init)
loadSettingsSet(i) ==
    /\ tasks[i].at = "ls_set"
    /\ AfterLoadSettings(i, tasks[i].val[1], store)

\* loadMeta after each of its awaits but the last: three getItem, then
\* three setItem
loadMetaStep(i) ==
    LET t == tasks[i]
        got(default) == IF t.val # Null THEN t.val[1] ELSE default
    IN  /\ t.at \in {"lm_cat", "lm_evt", "lm_rec", "lm_set_cat", "lm_set_evt"}
        /\ CASE t.at = "lm_cat" ->
                  /\ tasks' = [tasks EXCEPT ![i] =
                        [t EXCEPT !.at = "lm_evt", !.cats = got(DefaultCategories),
                                  !.val = GetItem(store, EventsKey)]]
                  /\ store' = store
             [] t.at = "lm_evt" ->
                  /\ tasks' = [tasks EXCEPT ![i] =
                        [t EXCEPT !.at = "lm_rec", !.evts = got(DefaultEvents),
                                  !.val = GetItem(store, RecentKey)]]
                  /\ store' = store
             [] t.at = "lm_rec" ->
                  /\ tasks' = [tasks EXCEPT ![i] =
                        [t EXCEPT !.at = "lm_set_cat", !.rec = got(DefaultRecent), !.val = Null]]
                  /\ store' = SetItem(store, CategoriesKey, t.cats)
             [] t.at = "lm_set_cat" ->
                  /\ tasks' = [tasks EXCEPT ![i] = [t EXCEPT !.at = "lm_set_evt"]]
                  /\ store' = SetItem(store, EventsKey, t.evts)
             [] t.at = "lm_set_evt" ->
                  /\ tasks' = [tasks EXCEPT ![i] = [t EXCEPT !.at = "lm_set_rec"]]
                  /\ store' = SetItem(store, RecentKey, t.rec)
        /\ UNCHANGED <<contacts, selected, anchorRef, gestureRef, showPicker, day,
                       globalSegments, calcVars, dateKey, settings, categories, events,
                       recentEvents, booting, alerts, ops>>

\* loadMeta returns to the function that awaits it: setCategories, setEvents,
\* setRecentEvents and, in importJSON, setDateKey(data.day.dateKey); then the
\* effects of the new state
loadMetaDone(i) ==
    LET t == tasks[i]
        pm == PersistMeta(store, t.cats, t.evts, t.rec)
        newKey == IF t.fn = "import" THEN t.data.day.dateKey ELSE dateKey
        loads == IF newKey # dateKey THEN <<LoadDayEffect(pm.store, newKey)>> ELSE <<>>
    IN  /\ t.at = "lm_set_rec"
        /\ categories' = t.cats
        /\ events' = t.evts
        /\ recentEvents' = t.rec
        /\ dateKey' = newKey
        /\ store' = pm.store
        /\ tasks' = RemoveAt(tasks, i) \o pm.tasks \o loads
        /\ UNCHANGED <<contacts, selected, anchorRef, gestureRef, showPicker, day,
                       globalSegments, calcVars, settings, booting, alerts, ops>>

\* The user acts when the record page is shown and neither the init effect
\* nor an import is still running, and while ops operations are left to start.
MetaIdle == \A i \in 1..Len(tasks) : tasks[i].fn \notin {"init", "import"}
CanStart ==
    /\ ~booting
    /\ MetaIdle
    /\ ops > 0

\* the timer of the loading effect, started once settings and day are there
bootTimer ==
    /\ booting
    /\ settings # Null
    /\ day # Null
    /\ booting' = FALSE
    /\ UNCHANGED <<contacts, selected, anchorRef, gestureRef, showPicker, day,
                   globalSegments, calcVars, store, dateKey, settings, categories,
                   events, recentEvents, tasks, alerts, ops>>

\* The header's date buttons: setDateKey, then the load-day effect when the
\* key has changed.  delta 0 is the today button.
onDateButton(delta) ==
    LET key == IF delta = 0 THEN AppToday ELSE addDays(dateKey, delta)
    IN  /\ CanStart
        /\ key \in AppDateKeys
        /\ ops' = ops - 1
        /\ dateKey' = key
        /\ tasks' = IF key # dateKey THEN Append(tasks, LoadDayEffect(store, key)) ELSE tasks
        /\ UNCHANGED <<contacts, selected, anchorRef, gestureRef, showPicker, day,
                       globalSegments, calcVars, store, settings, categories, events,
                       recentEvents, booting, alerts>>

\* the list with no entry removed
Without_KeepsAll(seq, x) == seq

\* prev.filter((x) => x !== eventId)
Without(seq, x) == SelectSeq(seq, LAMBDA e : e # x)
\* the list with eventId put first and no entry dropped
PutFirst_Uncut(prev, eventId) ==
    <<eventId>> \o Without(prev, eventId)

\* [eventId, ...prev.filter((x) => x !== eventId)].slice(0, RECENT_LIMIT)
PutFirst(prev, eventId) ==
    LET all == <<eventId>> \o Without(prev, eventId)
    IN  SubSeq(all, 1, Min(RECENT_LIMIT, Len(all)))

\* applyEvent writing eventId to every slot up to the last selected one
applyEvent_UpToLast(eventId) ==
    /\ CanStart
    /\ ops' = ops - 1
    /\ IF day = Null \/ selected = {}
       THEN UNCHANGED <<day, store, tasks>>
       ELSE LET next == [day[1] EXCEPT !.slots =
                           [i \in 1..Len(day[1].slots) |->
                               IF (\E s \in selected : i - 1 <= s) /\ i - 1 >= 0 /\ i - 1 < TOTAL_SLOTS
                               THEN eventId ELSE day[1].slots[i]]]
            IN  /\ day' = <<next>>
                /\ store' = SetItem(store, DayKey(next.dateKey), next)
                /\ tasks' = Append(tasks, [fn |-> "applyEvent", at |-> "saved",
                                           eventId |-> eventId, selected |-> selected])
    /\ UNCHANGED <<contacts, selected, anchorRef, gestureRef, showPicker,
                   globalSegments, calcVars, dateKey, settings, categories, events,
                   recentEvents, booting, alerts>>

\* applyEvent(eventId) up to await saveDay(next); the function that waits
\* holds the eventId and the selection of the render it was called in
applyEvent(eventId) ==
    /\ CanStart
    /\ ops' = ops - 1
    /\ IF day = Null \/ selected = {}
       THEN UNCHANGED <<day, store, tasks>>
       ELSE LET next == [day[1] EXCEPT !.slots =
                           [i \in 1..Len(day[1].slots) |->
                               IF (i - 1) \in selected /\ i - 1 >= 0 /\ i - 1 < TOTAL_SLOTS
                               THEN eventId ELSE day[1].slots[i]]]
            IN  /\ day' = <<next>>
                /\ store' = SetItem(store, DayKey(next.dateKey), next)
                /\ tasks' = Append(tasks, [fn |-> "applyEvent", at |-> "saved",
                                           eventId |-> eventId, selected |-> selected])
    /\ UNCHANGED <<contacts, selected, anchorRef, gestureRef, showPicker,
                   globalSegments, calcVars, dateKey, settings, categories, events,
                   recentEvents, booting, alerts>>

\* applyEvent after await saveDay(next)
applyEventSaved(i) ==
    LET t == tasks[i]
        rec == IF t.eventId # EMPTY THEN PutFirst(recentEvents, t.eventId) ELSE recentEvents
        pm == IF t.eventId # EMPTY THEN PersistMeta(store, categories, events, rec)
              ELSE [store |-> store, tasks |-> <<>>]
    IN  /\ t.fn = "applyEvent"
        /\ recentEvents' = rec
        /\ clearSelection
        /\ store' = pm.store
        /\ tasks' = RemoveAt(tasks, i) \o pm.tasks
        /\ UNCHANGED <<contacts, anchorRef, gestureRef, day, globalSegments, calcVars,
                       dateKey, settings, categories, events, booting, alerts, ops>>

\* copyFixedFromPrevDay up to await loadOrInitDay(prevKey)
copyFixedFromPrevDay ==
    /\ CanStart
    /\ ops' = ops - 1
    /\ IF day = Null
       THEN UNCHANGED tasks
       ELSE tasks' = Append(tasks,
               CallLoadOrInitDay(store, "copyFixed", addDays(day[1].dateKey, -1),
                                 [day |-> day[1], events |-> events]))
    /\ UNCHANGED <<contacts, selected, anchorRef, gestureRef, showPicker, day,
                   globalSegments, calcVars, store, dateKey, settings, categories,
                   events, recentEvents, booting, alerts>>

\* deleteEvent(evtId); ok is the answer to its confirm dialog
deleteEvent(evtId, ok) ==
    /\ CanStart
    /\ ops' = ops - 1
    /\ IF ~ok
       THEN UNCHANGED <<events, recentEvents, day, store, tasks>>
       ELSE LET evts == SelectSeq(events, LAMBDA e : e.id # evtId)
                rec == Without(recentEvents, evtId)
                changed == day # Null /\ \E i \in 1..Len(day[1].slots) : day[1].slots[i] = evtId
                next == [day[1] EXCEPT !.slots =
                           [i \in 1..Len(day[1].slots) |->
                               IF day[1].slots[i] = evtId THEN EMPTY ELSE day[1].slots[i]]]
                st == IF changed THEN SetItem(store, DayKey(next.dateKey), next) ELSE store
                pm == PersistMeta(st, categories, evts, rec)
            IN  /\ events' = evts
                /\ recentEvents' = rec
                /\ day' = IF changed THEN <<next>> ELSE day
                /\ store' = pm.store
                /\ tasks' = tasks \o pm.tasks
    /\ UNCHANGED <<contacts, selected, anchorRef, gestureRef, showPicker,
                   globalSegments, calcVars, dateKey, settings, categories, booting, alerts>>

\* findSleepEventId(): the first event named "sleep", or null
findSleepEventId ==
    LET at == { i \in 1..Len(events) : events[i].name = "sleep" }
    IN  IF at = {} THEN EMPTY ELSE events[CHOOSE i \in at : \A j \in at : i <= j].id

\* isInNightRange(timeHHMM) of fillSleep, ns and ne the night of the settings
isInNightRange(timeHHMM, ns, ne) ==
    LET t == hmToMinutes(timeHHMM)
        start == hmToMinutes(ns)
        end == hmToMinutes(ne)
    IN  IF start = end THEN FALSE
        ELSE IF start < end THEN t >= start /\ t < end
        ELSE t >= start \/ t < end

\* fillSleep(overrideExisting) up to await saveDay(next)
fillSleep(overrideExisting) ==
    /\ CanStart
    /\ ops' = ops - 1
    /\ IF day = Null \/ settings = Null
       THEN UNCHANGED <<day, store, tasks, alerts>>
       ELSE IF findSleepEventId = EMPTY
       THEN /\ alerts' = alerts + 1
            /\ UNCHANGED <<day, store, tasks>>
       ELSE LET sleepEventId == findSleepEventId
                next == [day[1] EXCEPT !.slots =
                           [i \in 1..Len(day[1].slots) |->
                               IF i > TOTAL_SLOTS THEN day[1].slots[i]
                               ELSE IF ~isInNightRange(slotToTime(i - 1),
                                                       settings.nightStart, settings.nightEnd)
                                    THEN day[1].slots[i]
                               ELSE IF ~overrideExisting /\ day[1].slots[i] # EMPTY
                                    THEN day[1].slots[i]
                               ELSE sleepEventId]]
            IN  /\ day' = <<next>>
                /\ store' = SetItem(store, DayKey(next.dateKey), next)
                /\ tasks' = Append(tasks, [fn |-> "fillSleep", at |-> "saved",
                                           eventId |-> sleepEventId])
                /\ UNCHANGED alerts
    /\ UNCHANGED <<contacts, selected, anchorRef, gestureRef, showPicker,
                   globalSegments, calcVars, dateKey, settings, categories, events,
                   recentEvents, booting>>

\* fillSleep after await saveDay(next)
fillSleepSaved(i) ==
    LET t == tasks[i]
        rec == PutFirst(recentEvents, t.eventId)
        pm == PersistMeta(store, categories, events, rec)
    IN  /\ t.fn = "fillSleep"
        /\ recentEvents' = rec
        /\ store' = pm.store
        /\ tasks' = RemoveAt(tasks, i) \o pm.tasks
        /\ UNCHANGED <<contacts, selected, anchorRef, gestureRef, showPicker, day,
                       globalSegments, calcVars, dateKey, settings, categories, events,
                       booting, alerts, ops>>

\* The files given to importJSON: whether JSON.parse(text) returns, and the
\* data it returns.  One text does not parse; one has no day; one has a day
\* without slots; one has a day of 95 slots; one is a full export of the day
\* after the date of the run; one has nothing but a day of the date of the
\* run.
ImportedSettings == [DefaultSettings EXCEPT !.nightStart = <<"2", "2", ":", "3", "0">>]
ImportedEvents == << DefaultEvents[5], DefaultEvents[3] >>
ImportedMeta ==
    [version |-> 1, settings |-> ImportedSettings, categories |-> SubSeq(DefaultCategories, 1, 2),
     events |-> ImportedEvents, recentEvents |-> <<"evt_life_eat">>]
WithDay(data, d) == [k \in (DOMAIN data) \cup {"day"} |-> IF k = "day" THEN d ELSE data[k]]
ImportTexts ==
    { [parses |-> FALSE, data |-> Null],
      [parses |-> TRUE, data |-> ImportedMeta],
      [parses |-> TRUE, data |-> WithDay(ImportedMeta, [dateKey |-> AppToday])],
      [parses |-> TRUE, data |-> WithDay(ImportedMeta,
          [dateKey |-> AppToday, slots |-> SubSeq(SlotsB, 1, TOTAL_SLOTS - 1)])],
      [parses |-> TRUE, data |-> WithDay(ImportedMeta,
          [dateKey |-> addDays(AppToday, 1), slots |-> SlotsB])],
      [parses |-> TRUE, data |-> [day |-> [dateKey |-> AppToday, slots |-> SlotsB]]] }

\* !data?.day?.slots || data.day.slots.length !== TOTAL_SLOTS
ImportRejected(data) ==
    \/ "day" \notin DOMAIN data
    \/ "slots" \notin DOMAIN data.day
    \/ Len(data.day.slots) # TOTAL_SLOTS

\* the setItem calls of importJSON, in order; the first four are made when
\* the data has the field
ImportFields == <<"settings", "categories", "events", "recentEvents", "day">>
ImportStage(data, n) ==
    CHOOSE m \in n..5 :
       /\ m = 5 \/ ImportFields[m] \in DOMAIN data
       /\ \A l \in n..(m - 1) : ImportFields[l] \notin DOMAIN data
ImportSetItem(st, data, m) ==
    IF m = 5 THEN SetItem(st, DayKey(data.day.dateKey), data.day)
    ELSE SetItem(st, <<ImportFields[m]>>, data[ImportFields[m]])

\* a task of the init effect or of importJSON
MetaTask(fn, at, val, text) ==
    [fn |-> fn, at |-> at, val |-> val, parses |-> text.parses, data |-> text.data,
     stage |-> 1, cats |-> <<>>, evts |-> <<>>, rec |-> <<>>]

\* the init effect up to the first await of loadSettings
InitEffect(st) ==
    MetaTask("init", "ls_got", GetItem(st, SettingsKey), [parses |-> TRUE, data |-> Null])

\* importJSON(file) up to await file.text()
importJSON(text) ==
    /\ CanStart
    /\ ops' = ops - 1
    /\ tasks' = Append(tasks, MetaTask("import", "text", Null, text))
    /\ UNCHANGED <<contacts, selected, anchorRef, gestureRef, showPicker, day,
                   globalSegments, calcVars, store, dateKey, settings, categories,
                   events, recentEvents, booting, alerts>>

\* importJSON making its first setItem before it looks at the day
importText_WritesFirst(i) ==
    LET t == tasks[i]
        m == ImportStage(t.data, 1)
    IN  /\ t.at = "text"
        /\ IF ~t.parses
           THEN /\ tasks' = RemoveAt(tasks, i)
                /\ UNCHANGED <<store, alerts>>
           ELSE IF ImportRejected(t.data)
           THEN /\ store' = IF m < 5 THEN ImportSetItem(store, t.data, m) ELSE store
                /\ alerts' = alerts + 1
                /\ tasks' = RemoveAt(tasks, i)
           ELSE /\ store' = ImportSetItem(store, t.data, m)
                /\ tasks' = [tasks EXCEPT ![i] = [t EXCEPT !.at = "im_write", !.stage = m + 1]]
                /\ UNCHANGED alerts
        /\ UNCHANGED <<contacts, selected, anchorRef, gestureRef, showPicker, day,
                       globalSegments, calcVars, dateKey, settings, categories, events,
                       recentEvents, booting, ops>>

\* importJSON after await file.text(): JSON.parse throws and the function
\* ends, or the data is refused with an alert, or the first setItem is made
importText(i) ==
    LET t == tasks[i]
        m == ImportStage(t.data, 1)
    IN  /\ t.at = "text"
        /\ IF ~t.parses
           THEN /\ tasks' = RemoveAt(tasks, i)
                /\ UNCHANGED <<store, alerts>>
           ELSE IF ImportRejected(t.data)
           THEN /\ alerts' = alerts + 1
                /\ tasks' = RemoveAt(tasks, i)
                /\ UNCHANGED store
           ELSE /\ store' = ImportSetItem(store, t.data, m)
                /\ tasks' = [tasks EXCEPT ![i] = [t EXCEPT !.at = "im_write", !.stage = m + 1]]
                /\ UNCHANGED alerts
        /\ UNCHANGED <<contacts, selected, anchorRef, gestureRef, showPicker, day,
                       globalSegments, calcVars, dateKey, settings, categories, events,
                       recentEvents, booting, ops>>

\* importJSON after the await of a setItem: the next setItem, or after the
\* last one the call of loadSettings up to its first await
importWrite(i) ==
    LET t == tasks[i]
        m == ImportStage(t.data, t.stage)
    IN  /\ t.at = "im_write"
        /\ IF t.stage <= 5
           THEN /\ store' = ImportSetItem(store, t.data, m)
                /\ tasks' = [tasks EXCEPT ![i] = [t EXCEPT !.stage = m + 1]]
           ELSE /\ store' = store
                /\ tasks' = [tasks EXCEPT ![i] =
                                [t EXCEPT !.at = "ls_got", !.val = GetItem(store, SettingsKey)]]
        /\ UNCHANGED <<contacts, selected, anchorRef, gestureRef, showPicker, day,
                       globalSegments, calcVars, dateKey, settings, categories, events,
                       recentEvents, booting, alerts, ops>>

\* the cell pressed, the pointer that presses it and the events picked
AppCells == {0}
AppPointer == 1
PickIds == {"evt_life_sleep", "evt_work_only"}
EventIdsOf(evts) == { evts[i].id : i \in 1..Len(evts) }

\* the state at the first render: nothing loaded, the init effect and the
\* load-day effect at their first await
InitApp ==
    /\ contacts = {}
    /\ selected = {}
    /\ anchorRef = NoSlot
    /\ gestureRef = Null
    /\ showPicker = FALSE
    /\ day = Null
    /\ globalSegments = [deps |-> Null, value |-> <<>>]
    /\ call = Null
    /\ ret = Null
    /\ store \in InitialStores
    /\ dateKey = AppToday
    /\ settings = Null
    /\ categories = <<>>
    /\ events = <<>>
    /\ recentEvents = <<>>
    /\ booting = TRUE
    /\ tasks = <<InitEffect(store), LoadDayEffect(store, AppToday)>>
    /\ alerts = 0
    /\ ops = MaxOps

NextApp ==
    \/ \E i \in 1..Len(tasks) : loadOrInitDayGot(i)
    \/ \E i \in 1..Len(tasks) : loadOrInitDaySet(i)
    \/ \E i \in 1..Len(tasks) : copyFixedSaved(i)
    \/ \E i \in 1..Len(tasks) : loadSettingsGot(i)
    \/ \E i \in 1..Len(tasks) : loadSettingsSet(i)
    \/ \E i \in 1..Len(tasks) : loadMetaStep(i)
    \/ \E i \in 1..Len(tasks) : loadMetaDone(i)
    \/ \E i \in 1..Len(tasks) : saveMetaStep(i)
    \/ \E i \in 1..Len(tasks) : applyEventSaved(i)
    \/ \E i \in 1..Len(tasks) : fillSleepSaved(i)
    \/ \E i \in 1..Len(tasks) : importText(i)
    \/ \E i \in 1..Len(tasks) : importWrite(i)
    \/ bootTimer
    \/ (~booting /\ MetaIdle /\ \E s \in AppCells : onCellPointerDown(AppPointer, s))
    \/ (~booting /\ MetaIdle /\ onPointerUp(AppPointer))
    \/ \E delta \in {-1, 0, 1} : onDateButton(delta)
    \/ \E x \in (PickIds \cap EventIdsOf(events)) \cup {EMPTY} : applyEvent(x)
    \/ copyFixedFromPrevDay
    \/ \E x \in PickIds \cap EventIdsOf(events), ok \in BOOLEAN : deleteEvent(x, ok)
    \/ \E o \in BOOLEAN : fillSleep(o)
    \/ \E text \in ImportTexts : importJSON(text)

SpecApp == InitApp /\ [][NextApp]_vars

\* ------------------------------------------------------------------------
\* C19  The Day Log of the app state and every Day Log loadOrInitDay returns
\* have 96 slots in every reachable state; a stored value that is absent or
\* has another slot count is replaced by a fresh log of 96 empty slots for
\* the requested date, which is stored, and no alert is shown; applyEvent,
\* deleteEvent, copy-fixed and fill-sleep keep the length.
\* ------------------------------------------------------------------------
C19_Fresh(key) == [dateKey |-> key, slots |-> [i \in 1..96 |-> "null"]]

C19_DayKeys(st) == { k \in DOMAIN st : k[1] = "day:" }

\* the Day Log of the state and the logs about to be returned have 96 slots
C19_Held ==
    /\ day # Null => Len(day[1].slots) = 96
    /\ \A i \in 1..Len(tasks) :
          tasks[i].at = "lo_set" => Len(tasks[i].val[1].slots) = 96

\* a step of loadOrInitDay on the value it got from the store
C19_LoadStep ==
    \A i \in 1..Len(tasks) :
       (tasks[i].at = "lo_got" /\ loadOrInitDayGot(i)) =>
          LET t == tasks[i]
              asStored == /\ t.val # Null
                          /\ "slots" \in DOMAIN t.val[1]
                          /\ Len(t.val[1].slots) = 96
          IN  /\ alerts' = alerts
              /\ ~asStored =>
                    /\ store'[DayKey(t.key)] = C19_Fresh(t.key)
                    /\ tasks'[i].at = "lo_set"
                    /\ tasks'[i].val = <<C19_Fresh(t.key)>>
              /\ (asStored /\ t.fn = "loadDay") => day' = t.val

\* every step keeps the length of the Day Log and writes logs of 96 slots
C19_Step ==
    /\ (day # Null /\ day' # Null) => Len(day'[1].slots) = Len(day[1].slots)
    /\ \A k \in C19_DayKeys(store') :
          (k \notin DOMAIN store \/ store'[k] # store[k]) =>
             /\ "slots" \in DOMAIN store'[k]
             /\ Len(store'[k].slots) = 96

C19_SlotCount == []C19_Held /\ [][C19_LoadStep /\ C19_Step]_vars

\* on the store whose log of the day had 95 slots (and whose log of the day
\* before still has none), the fresh log was loaded and an event applied to
\* its first slot
C19_Witness ==
    /\ DayKey(addDays(AppToday, -1)) \in DOMAIN store
    /\ "slots" \notin DOMAIN store[DayKey(addDays(AppToday, -1))]
    /\ day # Null
    /\ day[1].slots = [i \in 1..96 |-> IF i = 1 THEN "evt_work_only" ELSE "null"]
    /\ store[DayKey(AppToday)] = day[1]

\* ------------------------------------------------------------------------
\* C20  An import whose text does not parse, or whose data has no day, no
\* day.slots or a day.slots of another length than 96, is rejected whole:
\* nothing is written to the store, and settings, categories, events, recent
\* events, the loaded day and dateKey stay as they are.
\* ------------------------------------------------------------------------
C20_Invalid(t) ==
    \/ ~t.parses
    \/ "day" \notin DOMAIN t.data
    \/ "slots" \notin DOMAIN t.data.day
    \/ Len(t.data.day.slots) # 96

C20_RejectStep ==
    \A i \in 1..Len(tasks) :
       (tasks[i].fn = "import" /\ tasks[i].at = "text" /\ importText(i)
          /\ C20_Invalid(tasks[i])) =>
             /\ store' = store
             /\ settings' = settings
             /\ categories' = categories
             /\ events' = events
             /\ recentEvents' = recentEvents
             /\ day' = day
             /\ dateKey' = dateKey
             /\ tasks' = RemoveAt(tasks, i)

C20_ImportRejected == [][C20_RejectStep]_vars

\* an import has been rejected with its alert: the events have the event
\* fill-sleep looks for, so the alert is not the one of fill-sleep
C20_Witness ==
    /\ alerts = 1
    /\ ops = MaxOps - 1
    /\ tasks = <<>>
    /\ findSleepEventId # EMPTY
    /\ day # Null

\* ------------------------------------------------------------------------
\* The running app
\* ------------------------------------------------------------------------

\* the operations the user starts in the specifications of the running app
MaxApplies == 2

\* the store after the persist effects have saved the settings, the labels
\* and the logs of the days in logs
StoreOf(cats, evts, rec, logs) ==
    [k \in {SettingsKey, CategoriesKey, EventsKey, RecentKey}
           \cup { DayKey(logs[n].dateKey) : n \in 1..Len(logs) } |->
        IF k = SettingsKey THEN DefaultSettings
        ELSE IF k = CategoriesKey THEN cats
        ELSE IF k = EventsKey THEN evts
        ELSE IF k = RecentKey THEN rec
        ELSE LET n == CHOOSE n \in 1..Len(logs) : DayKey(logs[n].dateKey) = k
             IN  logs[n]]

\* The record page of the log d, shown after the boot screen with every
\* effect at rest: the state holds what the store holds.
AppRunning(cats, evts, rec, d, logs, n) ==
    /\ contacts = {}
    /\ selected = {}
    /\ anchorRef = NoSlot
    /\ gestureRef = Null
    /\ showPicker = FALSE
    /\ day = <<d>>
    /\ globalSegments = [deps |-> Null, value |-> <<>>]
    /\ call = Null
    /\ ret = Null
    /\ store = StoreOf(cats, evts, rec, logs)
    /\ dateKey = d.dateKey
    /\ settings = DefaultSettings
    /\ categories = cats
    /\ events = evts
    /\ recentEvents = rec
    /\ booting = FALSE
    /\ tasks = <<>>
    /\ alerts = 0
    /\ ops = n

\* the events of a user who has added four to the default ones with the
\* event form: uid("evt") gives them their ids
AddedEvents ==
    << [id |-> "evt_a", categoryId |-> "cat_work", name |-> "a", fixed |-> FALSE],
       [id |-> "evt_b", categoryId |-> "cat_work", name |-> "b", fixed |-> FALSE],
       [id |-> "evt_c", categoryId |-> "cat_study", name |-> "c", fixed |-> FALSE],
       [id |-> "evt_d", categoryId |-> "cat_study", name |-> "d", fixed |-> FALSE] >>
ManyEvents == DefaultEvents \o AddedEvents

\* the recent lists the app starts on: the first n ids of the events, n up
\* to the cap
RecentLists ==
    { [k \in 1..n |-> ManyEvents[k].id] : n \in 0..RECENT_LIMIT }

\* the entries picked: the first event, the eighth, the ninth, and clear
ApplyIds == {ManyEvents[1].id, ManyEvents[RECENT_LIMIT].id, ManyEvents[RECENT_LIMIT + 1].id, EMPTY}

InitRecent ==
    \E rec \in RecentLists :
        AppRunning(DefaultCategories, ManyEvents, rec,
                   [dateKey |-> AppToday, slots |-> SlotsA],
                   <<[dateKey |-> AppToday, slots |-> SlotsA]>>, MaxApplies)

NextRecent ==
    \/ \E s \in AppCells : onCellPointerDown(AppPointer, s)
    \/ onPointerUp(AppPointer)
    \/ \E x \in ApplyIds : applyEvent(x)
    \/ \E i \in 1..Len(tasks) : applyEventSaved(i)
    \/ \E i \in 1..Len(tasks) : saveMetaStep(i)

SpecRecent == InitRecent /\ [][NextRecent]_vars

\* ------------------------------------------------------------------------
\* C21  The recent-events list never repeats an id and never has more than
\* 8 entries.  The apply of an event e, once saved, makes e the first entry,
\* the other entries follow in the order they had, and the list is cut to 8
\* entries from the end; the apply of clear (null) leaves the list as it is.
\* ------------------------------------------------------------------------
C21_Bounded ==
    /\ Len(recentEvents) <= RECENT_LIMIT
    /\ \A a, b \in 1..Len(recentEvents) : recentEvents[a] = recentEvents[b] => a = b

C21_Others(e) == { a \in 1..Len(recentEvents) : recentEvents[a] # e }

C21_Step ==
    \A i \in 1..Len(tasks) :
       applyEventSaved(i) =>
          LET e == tasks[i].eventId
          IN  IF e = EMPTY
              THEN recentEvents' = recentEvents
              ELSE /\ recentEvents'[1] = e
                   /\ Len(recentEvents') = Min(RECENT_LIMIT, Cardinality(C21_Others(e)) + 1)
                   \* the entries after e are the first of the other entries, in their order
                   /\ \A b \in 2..Len(recentEvents') :
                         /\ recentEvents'[b] # e
                         /\ \E a \in C21_Others(e) :
                               /\ recentEvents[a] = recentEvents'[b]
                               /\ Cardinality({ c \in C21_Others(e) : c < a }) = b - 2

C21_RecentList == []C21_Bounded /\ [][C21_Step]_vars

\* the ninth event has been applied on a full list: it is first, the first
\* seven of the list follow and the eighth has been dropped
C21_Witness ==
    /\ Len(recentEvents) = RECENT_LIMIT
    /\ recentEvents[1] = ManyEvents[RECENT_LIMIT + 1].id
    /\ \A k \in 2..RECENT_LIMIT : recentEvents[k] = ManyEvents[k - 1].id
    /\ ops < MaxApplies
    /\ tasks = <<>>

\* ------------------------------------------------------------------------
\* C22  A confirmed deleteEvent(e) leaves no slot of the loaded Day Log
\* holding e and every other slot as it was, removes e from the events and
\* from the recent list, and leaves the stored logs of the other dates as
\* they were.
\* ------------------------------------------------------------------------
C22_IsDayKey(key) == Len(key) > 1 /\ key[1] = "day:"

C22_Step ==
    \A e \in PickIds :
       deleteEvent(e, TRUE) =>
          /\ (day' = Null) <=> (day = Null)
          /\ day # Null =>
                /\ day'[1].dateKey = day[1].dateKey
                /\ Len(day'[1].slots) = Len(day[1].slots)
                /\ \A i \in 1..Len(day[1].slots) :
                      /\ day'[1].slots[i] # e
                      /\ day[1].slots[i] # e => day'[1].slots[i] = day[1].slots[i]
          /\ \A k \in 1..Len(events') : events'[k].id # e
          /\ \A k \in 1..Len(events) :
                events[k].id # e => \E l \in 1..Len(events') : events'[l] = events[k]
          /\ \A k \in 1..Len(recentEvents') : recentEvents'[k] # e
          /\ \A k \in 1..Len(recentEvents) :
                recentEvents[k] # e => \E l \in 1..Len(recentEvents') : recentEvents'[l] = recentEvents[k]
          /\ \A key \in DOMAIN store :
                (C22_IsDayKey(key) /\ (day = Null \/ key # DayKey(day[1].dateKey))) =>
                    /\ key \in DOMAIN store'
                    /\ store'[key] = store[key]

C22_DeleteEvent == [][C22_Step]_vars

\* the event of slots 0-3 and 95 has been deleted: the loaded log keeps the
\* one slot of the other event, and the stored log of the day before still
\* has the deleted event
C22_Witness ==
    /\ events = <<DefaultEvents[5]>>
    /\ recentEvents = <<"evt_work_only">>
    /\ day # Null
    /\ day[1].slots = [i \in 1..TOTAL_SLOTS |-> IF i = 9 THEN "evt_work_only" ELSE EMPTY]
    /\ store[DayKey(AppToday)] = day[1]
    /\ store[DayKey(addDays(AppToday, -1))].slots = SlotsB

\* ------------------------------------------------------------------------
\* Color family
\* ------------------------------------------------------------------------

\* str.charCodeAt(i) of the characters of the ids
CodeTable ==
    << <<"_", 95>>, <<":", 58>>, <<"A", 65>>, <<"0", 48>>, <<"1", 49>>, <<"2", 50>>,
       <<"a", 97>>, <<"b", 98>>, <<"c", 99>>, <<"d", 100>>, <<"e", 101>>, <<"f", 102>>,
       <<"g", 103>>, <<"h", 104>>, <<"i", 105>>, <<"k", 107>>, <<"l", 108>>, <<"m", 109>>,
       <<"n", 110>>, <<"o", 111>>, <<"p", 112>>, <<"r", 114>>, <<"s", 115>>, <<"t", 116>>,
       <<"u", 117>>, <<"v", 118>>, <<"w", 119>>, <<"y", 121>> >>
charCodeAt(ch) == CodeTable[CHOOSE k \in 1..Len(CodeTable) : CodeTable[k][1] = ch][2]

\* a ^ b of two numbers below 2^16
RECURSIVE Xor(_, _)
Xor(a, b) ==
    IF a = 0 THEN b
    ELSE IF b = 0 THEN a
    ELSE (((a % 2) + (b % 2)) % 2) + 2 * Xor(a \div 2, b \div 2)

\* The 32-bit h of hashTo01 is the pair of its halves, h = hi * 2^16 + lo.
\* 2166136261 is 33052 * 2^16 + 40389.
HashSeed == [hi |-> 33052, lo |-> 40389]

\* h ^= code; h = Math.imul(h, 16777619): 16777619 is 2^24 + 403, and the
\* product is taken modulo 2^32
HashStep(h, code) ==
    LET lo == Xor(h.lo, code)
        t == lo * 403
    IN  [lo |-> t % 65536,
         hi |-> (h.hi * 403 + (t \div 65536) + (lo % 256) * 256) % 65536]

\* the loop of hashTo01 from the character i on; the halves of h are below
\* 2^16 after every step
RECURSIVE HashFrom(_, _, _)
HashFrom(h, str, i) ==
    IF i > Len(str) THEN h
    ELSE LET next == HashStep(h, charCodeAt(str[i]))
         IN  IF next.lo < 65536 /\ next.hi < 65536 THEN HashFrom(next, str, i + 1) ELSE next

\* hashTo01(str), in ten-thousandths: (h >>> 0) % 10000
hashTo01(str) ==
    LET h == HashFrom(HashSeed, str, 1)
    IN  ((h.hi % 10000) * (65536 % 10000) + h.lo) % 10000

\* Math.floor(hashTo01(categoryId) * 360).  The double product is below the
\* whole number it equals for four values of the hash, and floor then gives
\* one less.
FloorLow == {1750, 3500, 5750, 7000}
baseHue(categoryId) ==
    LET n == hashTo01(categoryId)
    IN  (n * 360) \div 10000 - (IF n \in FloorLow THEN 1 ELSE 0)

\* Math.round((hashTo01(eventId) - 0.5) * 72)
hueOffset_Wide(eventId) == ((hashTo01(eventId) - 5000) * 72 + 5000) \div 10000

\* Math.round((hashTo01(eventId) - 0.5) * 36): Math.round takes a half up
hueOffset(eventId) == ((hashTo01(eventId) - 5000) * 36 + 5000) \div 10000

\* Math.floor(hashTo01("tier:" + eventId) * 6)
tier(eventId) == (hashTo01(<<"t", "i", "e", "r", ":">> \o eventId) * 6) \div 10000

\* clamp01(x), x in thousandths
clamp01(x) == Max(0, Min(1000, x))

\* hsl(h, s, l, a): the numbers of `hsla(...)`, l given in tenths and a in
\* hundredths; Math.round takes a half up
hsl(h, s, l10, a) == [h |-> h, s |-> s, l |-> (l10 + 5) \div 10, a |-> a]

eventColorFamily(categoryId, eventId, isDark) ==
    LET hue == (baseHue(categoryId) + hueOffset(eventId) + 360) % 360
        sAccent == IF isDark THEN 78 ELSE 86
        lAccentBase == IF isDark THEN 56 ELSE 40
        lAccent10 == 10 * lAccentBase + tier(eventId) * (IF isDark THEN 40 ELSE 50)
        sFill == IF isDark THEN 55 ELSE 62
        lFillBase == IF isDark THEN 22 ELSE 92
        lFill10 == 10 * lFillBase - tier(eventId) * (IF isDark THEN 13 ELSE 17)
    IN  [fill |-> hsl(hue, sFill, clamp01(lFill10), IF isDark THEN 55 ELSE 88),
         accent |-> hsl(hue, sAccent, clamp01(lAccent10), 95)]

\* the ids of the labels colored: the default ones, the ones of a user who
\* has added events, and the ids catA, evt1, evt2
Chars(id) ==
    CASE id = "cat_life" -> <<"c", "a", "t", "_", "l", "i", "f", "e">>
      [] id = "cat_study" -> <<"c", "a", "t", "_", "s", "t", "u", "d", "y">>
      [] id = "cat_work" -> <<"c", "a", "t", "_", "w", "o", "r", "k">>
      [] id = "catA" -> <<"c", "a", "t", "A">>
      [] id = "evt_life_sleep" -> <<"e", "v", "t", "_", "l", "i", "f", "e", "_", "s", "l", "e", "e", "p">>
      [] id = "evt_life_commute" ->
            <<"e", "v", "t", "_", "l", "i", "f", "e", "_", "c", "o", "m", "m", "u", "t", "e">>
      [] id = "evt_life_eat" -> <<"e", "v", "t", "_", "l", "i", "f", "e", "_", "e", "a", "t">>
      [] id = "evt_study_english" ->
            <<"e", "v", "t", "_", "s", "t", "u", "d", "y", "_", "e", "n", "g", "l", "i", "s", "h">>
      [] id = "evt_work_only" -> <<"e", "v", "t", "_", "w", "o", "r", "k", "_", "o", "n", "l", "y">>
      [] id = "evt_a" -> <<"e", "v", "t", "_", "a">>
      [] id = "evt_b" -> <<"e", "v", "t", "_", "b">>
      [] id = "evt_c" -> <<"e", "v", "t", "_", "c">>
      [] id = "evt_d" -> <<"e", "v", "t", "_", "d">>
      [] id = "evt1" -> <<"e", "v", "t", "1">>
      [] id = "evt2" -> <<"e", "v", "t", "2">>
ColorCategories == { DefaultCategories[k].id : k \in 1..Len(DefaultCategories) } \cup {"catA"}
ColorEvents == { ManyEvents[k].id : k \in 1..Len(ManyEvents) } \cup {"evt1", "evt2"}

\* the colors of two events of one category, each in light and in dark mode
InitColor ==
    /\ contacts = {}
    /\ selected = {}
    /\ anchorRef = NoSlot
    /\ gestureRef = Null
    /\ showPicker = FALSE
    /\ day = Null
    /\ globalSegments = [deps |-> Null, value |-> <<>>]
    /\ \E c \in ColorCategories, e1, e2 \in ColorEvents :
          call = <<[fn |-> "eventColorFamily", categoryId |-> c, eventIds |-> <<e1, e2>>]>>
    /\ ret = Null
    /\ NoApp

\* eventColorFamily(categoryId, eventId, isDark) called for the first event in
\* light and in dark mode, then for the second
callEventColorFamily ==
    /\ call # Null
    /\ call[1].fn = "eventColorFamily"
    /\ Len(ret) < 4
    /\ LET eventId == call[1].eventIds[(Len(ret) \div 2) + 1]
           isDark == Len(ret) % 2 = 1
       IN  ret' = Append(ret, eventColorFamily(Chars(call[1].categoryId), Chars(eventId), isDark))
    /\ UNCHANGED <<contacts, selected, anchorRef, gestureRef, showPicker, day,
                   globalSegments, call, appVars>>

NextColor == callEventColorFamily

SpecColor == InitColor /\ [][NextColor]_vars

\* ------------------------------------------------------------------------
\* C23  The fill and the accent of a color family have one hue, the same in
\* light and in dark mode; the hue is within 18 degrees, around the circle,
\* of the base hue of the category, so the hues of two events of one
\* category are at most 36 degrees apart.
\* ------------------------------------------------------------------------
C23_Apart(h1, h2) == Min((h1 - h2 + 360) % 360, (h2 - h1 + 360) % 360)

C23_HueBand ==
    /\ \A k \in 1..Len(ret) :
          /\ ret[k].fill.h = ret[k].accent.h
          /\ ret[k].fill.h \in 0..359
          /\ C23_Apart(ret[k].fill.h, baseHue(Chars(call[1].categoryId))) <= 18
    /\ \A k \in {1, 3} : Len(ret) > k => ret[k].fill.h = ret[k + 1].fill.h
    /\ \A k, l \in 1..Len(ret) : C23_Apart(ret[k].fill.h, ret[l].fill.h) <= 36

\* two events of a category whose hues are 25 degrees apart, on the two sides
\* of the base hue, and differ in saturation and lightness between the modes
C23_Witness ==
    /\ Len(ret) = 4
    /\ call[1].categoryId = "catA"
    /\ call[1].eventIds = <<"evt_life_sleep", "evt_study_english">>
    /\ ret[1].fill.h = 235
    /\ ret[3].fill.h = 260
    /\ ret[1].fill # ret[2].fill
    /\ ret[1].accent # ret[2].accent

\* ------------------------------------------------------------------------
\* C24  The colors of two different events of one category differ in the hue
\* offset or in the lightness tier.
\* ------------------------------------------------------------------------
C24_Distinguishable ==
    (Len(ret) = 4 /\ call[1].eventIds[1] # call[1].eventIds[2]) =>
        \/ ret[1].fill.h # ret[3].fill.h
        \/ ret[1].fill.l # ret[3].fill.l
        \/ ret[1].accent.l # ret[3].accent.l

\* ------------------------------------------------------------------------
\* Editing a day
\* ------------------------------------------------------------------------

\* the cells pressed and dragged over, the coordinates of the motion samples
\* and the entries picked
EditCells == {0, 8}
EditCoords == {0, MaxDelta}
EditIds == {"evt_life_eat", EMPTY}

\* the logs stored when the record page is shown: the one of the date of the
\* run and the one of the day before; the day after has none
EditDay == [dateKey |-> AppToday, slots |-> SlotsA]
EditPrevDay == [dateKey |-> addDays(AppToday, -1), slots |-> SlotsB]

\* the motion samples of the pointer: as in SampleCoords and SampleCells, one
\* value stands for all where the handler does not read the input
EditSampleCoords ==
    IF Tracked(AppPointer) /\ gestureRef[1].mode = "pending" THEN EditCoords ELSE {0}
EditSampleCells(clientX, clientY) ==
    IF Tracked(AppPointer) /\ ModeAfterSample(gestureRef[1], clientX, clientY) = "hdrag"
    THEN EditCells \cup {NoCell}
    ELSE {NoCell}

InitEdit ==
    AppRunning(DefaultCategories, DefaultEvents, DefaultRecent, EditDay,
               <<EditDay, EditPrevDay>>, MaxApplies)

NextEdit ==
    \/ \E s \in EditCells : onCellPointerDown(AppPointer, s)
    \/ \E x \in EditSampleCoords, y \in EditSampleCoords :
          \E c \in EditSampleCells(x, y) : onGridPointerMove(AppPointer, x, y, c)
    \/ onPointerUp(AppPointer)
    \/ cancelSelection
    \/ \E x \in EditIds : applyEvent(x)
    \/ \E i \in 1..Len(tasks) : applyEventSaved(i)
    \/ \E i \in 1..Len(tasks) : saveMetaStep(i)
    \/ \E delta \in {-1, 0, 1} : onDateButton(delta)
    \/ \E i \in 1..Len(tasks) : loadOrInitDayGot(i)
    \/ \E i \in 1..Len(tasks) : loadOrInitDaySet(i)

SpecEdit == InitEdit /\ [][NextEdit]_vars

\* ------------------------------------------------------------------------
\* C26  The selection is empty or a run of slots without a gap within 0..95,
\* whatever presses, motion samples, releases, applies, clears and date
\* changes have happened.
\* ------------------------------------------------------------------------
C26_Contiguous ==
    /\ selected \subseteq 0..(TOTAL_SLOTS - 1)
    /\ \A a, b \in selected : \A s \in a..b : s \in selected

\* a drag has selected the slots 0 to 8 of the day after the date of the run
C26_Witness ==
    /\ selected = 0..8
    /\ gestureRef # Null
    /\ gestureRef[1].mode = "hdrag"
    /\ day # Null
    /\ day[1].dateKey = addDays(AppToday, 1)
    /\ dateKey = addDays(AppToday, 1)

\* ------------------------------------------------------------------------
\* C25  applyEvent(x) with a loaded day and a selection sets the selected
\* slots of the loaded log to x and no other slot, stores the log under its
\* own dateKey, and has emptied the selection when it ends.  With no loaded
\* day or no selection it leaves the log, the store, the recent list and
\* the selection as they are.
\* ------------------------------------------------------------------------
C25_ApplyStep ==
    \A x \in EditIds :
       applyEvent(x) =>
          IF day # Null /\ selected # {}
          THEN /\ day' # Null
               /\ day'[1].dateKey = day[1].dateKey
               /\ Len(day'[1].slots) = Len(day[1].slots)
               /\ \A s \in 0..(Len(day[1].slots) - 1) :
                     day'[1].slots[s + 1] = IF s \in selected THEN x ELSE day[1].slots[s + 1]
               /\ DayKey(day[1].dateKey) \in DOMAIN store'
               /\ store'[DayKey(day[1].dateKey)] = day'[1]
               /\ \A key \in DOMAIN store :
                     key # DayKey(day[1].dateKey) => (key \in DOMAIN store' /\ store'[key] = store[key])
               /\ \E i \in 1..Len(tasks') : tasks'[i].fn = "applyEvent"
          ELSE /\ day' = day
               /\ store' = store
               /\ recentEvents' = recentEvents
               /\ selected' = selected
               /\ tasks' = tasks

C25_EndStep ==
    \A i \in 1..Len(tasks) : applyEventSaved(i) => selected' = {}

C25_ApplyEvent == [][C25_ApplyStep /\ C25_EndStep]_vars

\* an event has been applied to the dragged slots 0 to 8 of the log of the
\* date of the run and the apply has ended
C25_Witness ==
    /\ day # Null
    /\ day[1].dateKey = AppToday
    /\ day[1].slots = [i \in 1..TOTAL_SLOTS |-> IF i <= 9 THEN "evt_life_eat" ELSE SlotsA[i]]
    /\ store[DayKey(AppToday)] = day[1]
    /\ recentEvents[1] = "evt_life_eat"
    /\ selected = {}
    /\ tasks = <<>>

\* ------------------------------------------------------------------------
\* Segment blocks of the grid rows
\* ------------------------------------------------------------------------
\* the block drawn for every piece, whether it starts the run or not
segBlock_EveryPiece(seg) ==
    [startCol |-> seg.startCol, len |-> seg.len,
     roundLeft |-> seg.isStartHere, roundRight |-> seg.isEndHere,
     showTextHere |-> TRUE, minutes |-> seg.totalLen * SLOT_MINUTES]

\* the callback of rowSegments.map(...): the block drawn for the piece seg,
\* its rounded ends, and the text `· ${minutes}m` next to its label
segBlock(seg) ==
    [startCol |-> seg.startCol, len |-> seg.len,
     roundLeft |-> seg.isStartHere, roundRight |-> seg.isEndHere,
     showTextHere |-> seg.isStartHere, minutes |-> seg.totalLen * SLOT_MINUTES]

\* ------------------------------------------------------------------------
\* C27  The blocks the 12 rows draw for a segment partition the segment's
\* slots; exactly one of them has the rounded start (isStartHere) and
\* exactly one the rounded end (isEndHere); the label is drawn on one block
\* only, and the minutes it shows are those of the whole run.
\* ------------------------------------------------------------------------
\* the block each row draws for the segment g, if any
C27_BlocksOf(g) ==
    [r \in 0..(GRID_ROWS - 1) |->
        LET c == ClipToRow(g, r * 8, r * 8 + 8)
        IN  IF c = Null THEN Null ELSE <<segBlock(c[1])>>]

C27_First(r, b) == 8 * r + b.startCol
C27_Last(r, b) == 8 * r + b.startCol + b.len - 1

C27_LabelOf(g) ==
    LET bl == C27_BlocksOf(g)
        drawn == { r \in DOMAIN bl : bl[r] # Null }
    IN  \* the blocks lie in the segment, one to a row, and leave no slot of it out
        /\ \A r \in drawn :
              /\ g.start <= C27_First(r, bl[r][1])
              /\ C27_First(r, bl[r][1]) <= C27_Last(r, bl[r][1])
              /\ C27_Last(r, bl[r][1]) < g.end
              /\ r * 8 <= C27_First(r, bl[r][1])
              /\ C27_Last(r, bl[r][1]) < r * 8 + 8
        /\ \A i \in g.start..(g.end - 1) :
              /\ (i \div 8) \in drawn
              /\ C27_First(i \div 8, bl[i \div 8][1]) <= i
              /\ i <= C27_Last(i \div 8, bl[i \div 8][1])
        /\ Cardinality({ r \in drawn : bl[r][1].roundLeft }) = 1
        /\ Cardinality({ r \in drawn : bl[r][1].roundRight }) = 1
        /\ Cardinality({ r \in drawn : bl[r][1].showTextHere }) = 1
        /\ \A r \in drawn :
              bl[r][1].showTextHere => bl[r][1].minutes = SLOT_MINUTES * Cardinality(Covered(g))

C27_OneLabel == Rendered => \A k \in 1..Len(Segs) : C27_LabelOf(Segs[k])

\* a rendered run of more than two rows: its label shows more than four hours
C27_Witness ==
    /\ Rendered
    /\ \E k \in 1..Len(Segs) :
          LET bl == C27_BlocksOf(Segs[k])
          IN  /\ Cardinality({ r \in DOMAIN bl : bl[r] # Null }) >= 3
              /\ \E r \in DOMAIN bl : bl[r] # Null /\ bl[r][1].showTextHere /\ bl[r][1].minutes > 240

\* ------------------------------------------------------------------------
\* C28  When the date has been changed several times, each change starting
\* a load of the Day Log, then once every load has completed the loaded log
\* is the one of the current date: day.dateKey = dateKey.
\* ------------------------------------------------------------------------
C28_Loading == \E i \in 1..Len(tasks) : tasks[i].fn = "loadDay"

C28_LoadedIsCurrent ==
    (day # Null /\ ~C28_Loading) => day[1].dateKey = dateKey

\* ------------------------------------------------------------------------
\* C29  applyEvent clears the selection it applied and no other: when a
\* slot S was pressed while an applyEvent was waiting for its save, the
\* selection is still the one made from S when the save completes.
\* ------------------------------------------------------------------------
\* A press has come since the apply i began: the anchor is a slot outside
\* the selection the apply was called with, and that selection held its
\* anchor.
C29_PressedSince(i) ==
    /\ tasks[i].fn = "applyEvent"
    /\ anchorRef # NoSlot
    /\ anchorRef \notin tasks[i].selected
    /\ anchorRef \in selected

C29_KeepsNewSelection ==
    [][\A i \in 1..Len(tasks) :
          (C29_PressedSince(i) /\ applyEventSaved(i)) => selected' = selected]_vars

\* ------------------------------------------------------------------------
\* Copying the fixed events of the day before
\* ------------------------------------------------------------------------
\* the cells pressed: slot 20 is empty in the log of the day and in the one
\* of the day before
CopyCells == {0, 20}

InitCopy ==
    AppRunning(DefaultCategories, DefaultEvents, DefaultRecent, EditDay,
               <<EditDay, EditPrevDay>>, MaxApplies)

NextCopy ==
    \/ \E s \in CopyCells : onCellPointerDown(AppPointer, s)
    \/ onPointerUp(AppPointer)
    \/ \E x \in EditIds : applyEvent(x)
    \/ \E i \in 1..Len(tasks) : applyEventSaved(i)
    \/ \E i \in 1..Len(tasks) : saveMetaStep(i)
    \/ copyFixedFromPrevDay
    \/ \E i \in 1..Len(tasks) : loadOrInitDayGot(i)
    \/ \E i \in 1..Len(tasks) : copyFixedSaved(i)

SpecCopy == InitCopy /\ [][NextCopy]_vars

\* ------------------------------------------------------------------------
\* C30  Copy-fixed fills blanks only: when copyFixedFromPrevDay sets the
\* day, every slot of the current day that holds an event keeps it, also a
\* slot written by an applyEvent while the day before was being loaded, and
\* every empty slot stays empty or gets the slot of the day before, the
\* event of which is fixed.
\* ------------------------------------------------------------------------
C30_Fixed(eid) == \E k \in 1..Len(events) : events[k].id = eid /\ events[k].fixed

C30_CopyStep ==
    \A i \in 1..Len(tasks) :
       (tasks[i].fn = "copyFixed" /\ tasks[i].at = "lo_got" /\ ValidDay(tasks[i].val)
          /\ loadOrInitDayGot(i) /\ day # Null) =>
             /\ day' # Null
             /\ \A s \in 1..TOTAL_SLOTS :
                   IF day[1].slots[s] # EMPTY
                   THEN day'[1].slots[s] = day[1].slots[s]
                   ELSE \/ day'[1].slots[s] = EMPTY
                        \/ /\ day'[1].slots[s] = tasks[i].val[1].slots[s]
                           /\ C30_Fixed(day'[1].slots[s])

C30_FillsBlanksOnly == [][C30_CopyStep]_vars
====
